---- MODULE Spec2Model ----
(***************************************************************************)
(* A model of integra-status: the check dispatcher of lib/health.js, the   *)
(* endpoint filter of lib/health-config.js, the history store of           *)
(* lib/history.js and the request handler of api/health.js.                *)
(***************************************************************************)
EXTENDS Integers, Sequences, FiniteSets, TLC

VARIABLES
  ENDPOINTS,  \* the endpoint registry (lib/health-config.js), fixed in a run
  net,        \* what the network, the disk and the clients can do in this run
  now,        \* the wall clock read by Date.now()
  file,       \* the backing file /tmp/integra-history.json
  cycles,     \* one record per checkAll call / handler request
  done,       \* the cycles in the order in which they completed
  store,      \* a history object a caller of recordSnapshot holds
  appended,   \* the snapshots that caller has appended, in order
  metrics,    \* what the history derivations returned, and for which history
  walk        \* a traversal of the dependency graph, one loop turn at a time

vars == <<ENDPOINTS, net, now, file, cycles, done, store, appended, metrics,
          walk>>

-----------------------------------------------------------------------------
(* Bounds of the model                                                     *)

MaxCycles == 2    \* handler requests that may overlap in one process
MaxElapsed == 1   \* largest measured Date.now() - start
MaxStep == 1      \* largest clock advance between two completions
MaxExtra == 3     \* appends beyond the capacity of the history
MaxClock == 1     \* latest time of an append of the recordSnapshot caller
MaxAppends == 1   \* recordSnapshot calls made on top of a recorded history
MaxCalls == 2     \* traversals called on one dependency graph
MaxEvicted == 2   \* snapshots pushed out of a full history

-----------------------------------------------------------------------------
(* JavaScript values that may be a string, a number or null                *)

JsNull == [t |-> "null", v |-> ""]
JsUndefined == [t |-> "undefined", v |-> ""]
JsStr(s) == [t |-> "string", v |-> s]
JsNum(s) == [t |-> "number", v |-> s]
JsFalse == [t |-> "boolean", v |-> "false"]
JsObject == [t |-> "object", v |-> ""]

\* JavaScript truthiness of such a value
Truthy(x) ==
  \/ x.t = "object"
  \/ x.t = "string" /\ x.v # ""
  \/ x.t = "number" /\ x.v \notin {"0", "NaN"}

\* a || b
OrElse(a, b) == IF Truthy(a) THEN a ELSE b

NoDetails == [k \in {} |-> 0]

-----------------------------------------------------------------------------
(* Thrown values: Error objects with a name, an optional code and a        *)
(* message                                                                 *)

Err(name, code, message) == [name |-> name, code |-> code, message |-> message]

\* new Error(message)
NewError(message) == Err("Error", "", message)

\* String(err) of an Error object: "name: message", or the name alone when
\* the message is empty
ErrToString(err) ==
  IF err.message = "" THEN err.name ELSE err.name \o ": " \o err.message

Throw(err) == [kind |-> "throw", err |-> err]
Return(value) == [kind |-> "return", value |-> value]
\* the async function is suspended on its next request
Await(stage, details) == [kind |-> "await", stage |-> stage, details |-> details]

-----------------------------------------------------------------------------
(* The endpoint registry and its filter (lib/health-config.js)             *)

Endpoint(id, category, environment, checkType, enabled, url) ==
  [id |-> id, category |-> category, environment |-> environment,
   checkType |-> checkType, enabled |-> enabled, url |-> url,
   expectedChainId |-> "0x6669", expectedField |-> "issuer",
   peerIp |-> "3.92.110.107", publicRpc |-> "https://rpc.integralayer.com"]

\* getEndpoints(opts): opts.enabledOnly is "absent", "true" or "false";
\* opts.category and opts.environment are "" when absent or falsy
getEndpoints(opts) ==
  LET eps0 == IF opts.enabledOnly # "false"
                THEN SelectSeq(ENDPOINTS, LAMBDA e: e.enabled)
                ELSE ENDPOINTS
      eps1 == IF opts.category # ""
                THEN SelectSeq(eps0, LAMBDA e: e.category = opts.category)
                ELSE eps0
  IN IF opts.environment # ""
       THEN SelectSeq(eps1, LAMBDA e: e.environment = opts.environment)
       ELSE eps1

-----------------------------------------------------------------------------
(* The result builder (lib/health.js)                                      *)

\* result(ep, status, responseTimeMs, details, error): error || null
result(ep, status, responseTimeMs, details, error) ==
  [id |-> ep.id, category |-> ep.category,
   environment |-> IF ep.environment = "" THEN "prod" ELSE ep.environment,
   status |-> status, responseTimeMs |-> responseTimeMs,
   details |-> details, error |-> OrElse(error, JsNull)]

-----------------------------------------------------------------------------
(* The network: what one request can end in                                *)

Response(statusCode, body) ==
  [kind |-> "response", statusCode |-> statusCode, body |-> body]
Timeout == [kind |-> "timeout"]
Failure(err) == [kind |-> "error", err |-> err]

\* the transport errors node reports on a request
ECONNREFUSED == Err("Error", "ECONNREFUSED", "connect ECONNREFUSED")
ECONNRESET == Err("Error", "ECONNRESET", "socket hang up")
EHOSTUNREACH == Err("Error", "EHOSTUNREACH", "connect EHOSTUNREACH")
ENOTFOUND == Err("Error", "ENOTFOUND", "getaddrinfo ENOTFOUND")
\* all addresses of a host refused: an AggregateError with an empty message
AggregateRefused == Err("AggregateError", "ECONNREFUSED", "")

AllFaults == {ECONNREFUSED, ECONNRESET, EHOSTUNREACH, ENOTFOUND, AggregateRefused}
AllCodes == {200, 302, 404, 500}

\* the ways a request can end without a response
Broken == {Timeout} \cup {Failure(e) : e \in net.faults}

\* the ways a request can end, for a set of response bodies
Exchanges(bodies) ==
  {Response(c, b) : c \in net.codes, b \in bodies} \cup Broken

\* httpRequest(url, opts): the promise settles on the request's end
httpRequest(ex) ==
  IF ex.kind = "response" THEN Return([statusCode |-> ex.statusCode, body |-> ex.body])
  ELSE IF ex.kind = "timeout" THEN Throw(NewError("timeout"))
  ELSE Throw(ex.err)

\* a body that is not JSON, and JSON.parse of it
NotJson == [json |-> FALSE]
SyntaxError == Err("SyntaxError", "", "Unexpected token < in JSON at position 0")
TypeError(message) == Err("TypeError", "", message)

-----------------------------------------------------------------------------
(* The probes (lib/health.js).  Each takes the endpoint, what its requests  *)
(* end in, and the measured Date.now() - start, and gives what the async   *)
(* function settles to: Return(result) or Throw(err).                      *)

HttpError(statusCode) == NewError("HTTP " \o ToString(statusCode))

\* bodies of the probes that read no field of the body
PlainBodies == {NotJson}

checkHttpGet(ep, ex, dt) ==
  LET res == httpRequest(ex) IN
  IF res.kind = "throw" THEN res
  ELSE IF res.value.statusCode >= 200 /\ res.value.statusCode < 400
    THEN Return(result(ep, "UP", dt, [statusCode |-> res.value.statusCode], JsUndefined))
  ELSE Throw(HttpError(res.value.statusCode))

\* http-json bodies: not JSON, JSON that is no object (null), and objects
\* with and without the expected field
HttpJsonBodies ==
  {NotJson, [json |-> TRUE, object |-> FALSE, keys |-> {}],
   [json |-> TRUE, object |-> TRUE, keys |-> {"issuer"}],
   [json |-> TRUE, object |-> TRUE, keys |-> {"other"}]}

checkHttpJson(ep, ex, dt) ==
  LET res == httpRequest(ex) IN
  IF res.kind = "throw" THEN res
  ELSE IF res.value.statusCode < 200 \/ res.value.statusCode >= 400
    THEN Throw(HttpError(res.value.statusCode))
  ELSE IF ~res.value.body.json THEN Throw(SyntaxError)
  ELSE LET data == res.value.body
           details == [statusCode |-> res.value.statusCode]
       IN IF ep.expectedField = "" THEN Return(result(ep, "UP", dt, details, JsUndefined))
          ELSE IF ~data.object
            THEN Throw(TypeError("Cannot use 'in' operator to search for '"
                                 \o ep.expectedField \o "' in null"))
          ELSE IF ep.expectedField \notin data.keys
            THEN Return(result(ep, "DEGRADED", dt, details,
                               JsStr("Missing expected field: " \o ep.expectedField)))
          ELSE Return(result(ep, "UP", dt, details, JsUndefined))

\* websocket: the handshake ends in an upgrade, a plain response, a timeout
\* or an error
Upgrade == [kind |-> "upgrade"]
Handshakes == {Upgrade} \cup Exchanges(PlainBodies)

checkWebsocket(ep, ex, dt) ==
  IF ex.kind = "upgrade" THEN Return(result(ep, "UP", dt, [upgraded |-> TRUE], JsUndefined))
  ELSE IF ex.kind = "response"
    THEN IF ex.statusCode < 400
           THEN Return(result(ep, "UP", dt, [statusCode |-> ex.statusCode], JsUndefined))
           ELSE Throw(HttpError(ex.statusCode))
  ELSE IF ex.kind = "timeout" THEN Throw(NewError("timeout"))
  ELSE Throw(ex.err)

\* api-health bodies: not JSON, or an object with a status
ApiHealthBodies == {NotJson, [json |-> TRUE, status |-> "ok"]}

checkApiHealth(ep, ex, dt) ==
  LET res == httpRequest(ex) IN
  IF res.kind = "throw" THEN res
  ELSE IF res.value.statusCode >= 200 /\ res.value.statusCode < 400
    THEN LET base == [statusCode |-> res.value.statusCode]
             details == IF res.value.body.json /\ res.value.body.status # ""
                          THEN [statusCode |-> res.value.statusCode,
                                healthStatus |-> res.value.body.status]
                          ELSE base
         IN Return(result(ep, "UP", dt, details, JsUndefined))
  ELSE Throw(HttpError(res.value.statusCode))

checkHttpReachable(ep, ex, dt) ==
  LET res == httpRequest(ex) IN
  IF res.kind = "throw" THEN res
  ELSE IF res.value.statusCode < 500
    THEN Return(result(ep, "UP", dt, [statusCode |-> res.value.statusCode], JsUndefined))
  ELSE Throw(HttpError(res.value.statusCode))

\* graphql bodies: not JSON, JSON null, and objects with a data field
\* (hasData: data is truthy) and with an errors value: "absent", or the
\* array of the messages of its entries (JsUndefined: an entry without one)
GraphqlMessages == {JsUndefined, JsStr("Cannot query field"), JsNum("42")}
GraphqlBodies ==
  {NotJson, [json |-> TRUE, isNull |-> TRUE]}
  \cup {[json |-> TRUE, isNull |-> FALSE, hasData |-> d, hasErrors |-> FALSE, errors |-> <<>>] :
          d \in BOOLEAN}
  \cup {[json |-> TRUE, isNull |-> FALSE, hasData |-> d, hasErrors |-> TRUE, errors |-> e] :
          d \in BOOLEAN, e \in {<<>>} \cup {<<m>> : m \in GraphqlMessages}}

\* checkGraphql testing data.errors before data.data
checkGraphqlErrorsFirst(ep, ex, dt) ==
  LET res == httpRequest(ex) IN
  IF res.kind = "throw" THEN res
  ELSE IF res.value.statusCode >= 200 /\ res.value.statusCode < 400
    THEN LET data == res.value.body
             details == [statusCode |-> res.value.statusCode]
         IN IF ~data.json \/ data.isNull
              THEN Return(result(ep, "UP", dt, details, JsUndefined))
            ELSE IF data.hasErrors
              THEN LET message == IF data.errors = <<>> THEN JsUndefined
                                  ELSE data.errors[1]
                   IN Return(result(ep, "DEGRADED", dt, details,
                                    OrElse(message, JsStr("GraphQL errors"))))
            ELSE Return(result(ep, "UP", dt, details, JsUndefined))
  ELSE Throw(HttpError(res.value.statusCode))

\* graphql: one POST of the query { __typename }
checkGraphql(ep, ex, dt) ==
  LET res == httpRequest(ex) IN
  IF res.kind = "throw" THEN res
  ELSE IF res.value.statusCode >= 200 /\ res.value.statusCode < 400
    THEN LET data == res.value.body
             details == [statusCode |-> res.value.statusCode]
         IN IF ~data.json \/ data.isNull
              THEN Return(result(ep, "UP", dt, details, JsUndefined))
            ELSE IF data.hasData
              THEN Return(result(ep, "UP", dt, details, JsUndefined))
            ELSE IF data.hasErrors
              THEN LET message == IF data.errors = <<>> THEN JsUndefined
                                  ELSE data.errors[1]
                   IN Return(result(ep, "DEGRADED", dt, details,
                                    OrElse(message, JsStr("GraphQL errors"))))
            ELSE Return(result(ep, "UP", dt, details, JsUndefined))
  ELSE Throw(HttpError(res.value.statusCode))

\* cosmos-peer-check bodies: not JSON, JSON null, and a result with a list
\* of peers, each given by its remote_ip
PeerBodies ==
  {NotJson, [json |-> TRUE, isNull |-> TRUE, peers |-> <<>>]}
  \cup {[json |-> TRUE, isNull |-> FALSE, peers |-> ps] :
          ps \in {<<>>, <<"10.0.0.9">>, <<"10.0.0.9", "3.92.110.107">>}}

\* the index of the first peer whose remote_ip is peerIp, or 0
FirstPeer(peers, peerIp) ==
  IF \E i \in 1..Len(peers) : peers[i] = peerIp
    THEN CHOOSE i \in 1..Len(peers) :
           /\ peers[i] = peerIp
           /\ \A j \in 1..(i - 1) : peers[j] # peerIp
    ELSE 0

checkCosmosPeer(ep, ex, dt) ==
  LET res == httpRequest(ex) IN
  IF res.kind = "throw" THEN res
  ELSE IF res.value.statusCode # 200
    THEN Throw(NewError("Public RPC returned HTTP " \o ToString(res.value.statusCode)))
  ELSE IF ~res.value.body.json THEN Throw(SyntaxError)
  ELSE IF res.value.body.isNull
    THEN Throw(TypeError("Cannot read properties of null (reading 'result')"))
  ELSE LET peers == res.value.body.peers
           details == [totalPeers |-> Len(peers)]
       IN IF FirstPeer(peers, ep.peerIp) # 0
            THEN Return(result(ep, "UP", dt, details, JsUndefined))
            ELSE Return(result(ep, "DEGRADED", dt, details,
                               JsStr("Validator not found in peer list")))

\* `${x}` of a string or of undefined
Template(x) == IF x.t = "undefined" THEN "undefined" ELSE x.v

\* JSON-RPC bodies: not JSON, an error object (with or without a message),
\* or a result
RpcError(message) ==
  [json |-> TRUE, hasError |-> TRUE, errorMessage |-> message, result |-> JsUndefined]
RpcResult(value) ==
  [json |-> TRUE, hasError |-> FALSE, errorMessage |-> JsUndefined, result |-> value]
RpcFailures == {NotJson, RpcError(JsUndefined), RpcError(JsStr("method not found"))}
RpcBodies(stage) ==
  RpcFailures \cup
  CASE stage = 1 -> {RpcResult(JsStr("0x10"))}
    [] stage = 2 -> {RpcResult(JsStr("0x6669")), RpcResult(JsStr("0x1"))}
    [] stage = 3 -> {RpcResult(JsFalse), RpcResult(JsObject)}
    [] OTHER -> {RpcResult(JsStr("0x5"))}

\* evm-rpc: eth_blockNumber, eth_chainId, eth_syncing, net_peerCount
checkEvmRpc(ep, stage, details, ex, dt) ==
  LET res == httpRequest(ex) IN
  IF res.kind = "throw" THEN res
  ELSE IF ~res.value.body.json THEN Throw(SyntaxError)
  ELSE LET data == res.value.body IN
    IF stage = 1 THEN
      IF data.hasError
        THEN Throw(NewError(OrElse(data.errorMessage, JsStr("eth_blockNumber failed")).v))
        ELSE Await(2, [blockHeight |-> data.result.v])
    ELSE IF stage = 2 THEN
      LET d2 == [blockHeight |-> details.blockHeight, chainId |-> data.result] IN
      IF ep.expectedChainId # "" /\ data.result # JsStr(ep.expectedChainId)
        THEN Return(result(ep, "DEGRADED", dt, d2,
               JsStr("Chain ID mismatch: expected " \o ep.expectedChainId
                     \o ", got " \o Template(data.result))))
        ELSE Await(3, d2)
    ELSE IF stage = 3 THEN
      LET d3 == [blockHeight |-> details.blockHeight, chainId |-> details.chainId,
                 syncing |-> data.result # JsFalse] IN
      IF d3.syncing
        THEN Return(result(ep, "DEGRADED", dt, d3, JsStr("Node is syncing")))
        ELSE Await(4, d3)
    ELSE
      Return(result(ep, "UP", dt,
                    [blockHeight |-> details.blockHeight, chainId |-> details.chainId,
                     syncing |-> details.syncing, peerCount |-> data.result],
                    JsUndefined))

CHAIN_HALT_THRESHOLD_SECONDS == 60

\* Math.round of milliseconds / 1000
RoundSeconds(ms) == (ms + 500) \div 1000

\* the ages, in milliseconds, of the latest block when the probe reads it
BlockAges == {30000, 60000, 60400, 120000}

\* /status and /blocks/latest bodies: not JSON, JSON without sync info (or
\* header), or with one: the block's age and catching_up
ChainBodies(flags) ==
  {NotJson, [json |-> TRUE, hasInfo |-> FALSE]}
  \cup {[json |-> TRUE, hasInfo |-> TRUE, ageMs |-> a, catchingUp |-> cu] :
          a \in BlockAges, cu \in flags}

\* /net_info and /validators bodies: not JSON, or a list of the given length
CountBodies == {NotJson, [json |-> TRUE, count |-> 2]}

\* the second request of the cosmos probes, inside try/catch: the count is
\* added to the details when the request ends in a 200 with a JSON body
BestEffort(details, key, res) ==
  IF res.kind = "return" /\ res.value.statusCode = 200 /\ res.value.body.json
    THEN [k \in DOMAIN details \cup {key} |->
            IF k = key THEN res.value.body.count ELSE details[k]]
    ELSE details

HaltMessage(ageMs) ==
  "Possible chain halt - last block " \o ToString(RoundSeconds(ageMs)) \o "s ago"

\* cosmos-rpc: /status, then /net_info (best effort)
checkCosmosRpc(ep, stage, details, ex, dt) ==
  LET res == httpRequest(ex) IN
  IF stage = 1 THEN
    IF res.kind = "throw" THEN res
    ELSE IF res.value.statusCode # 200 THEN Throw(HttpError(res.value.statusCode))
    ELSE IF ~res.value.body.json THEN Throw(SyntaxError)
    ELSE LET syncInfo == res.value.body IN
      IF ~syncInfo.hasInfo THEN Await(2, NoDetails)
      ELSE LET d1 == [catchingUp |-> syncInfo.catchingUp,
                      blockAgeSec |-> RoundSeconds(syncInfo.ageMs)] IN
        IF syncInfo.ageMs > CHAIN_HALT_THRESHOLD_SECONDS * 1000
          THEN Return(result(ep, "DEGRADED", dt, d1, JsStr(HaltMessage(syncInfo.ageMs))))
        ELSE IF syncInfo.catchingUp
          THEN Return(result(ep, "DEGRADED", dt, d1, JsStr("Node is catching up")))
        ELSE Await(2, d1)
  ELSE
    Return(result(ep, "UP", dt, BestEffort(details, "peerCount", res), JsUndefined))

\* cosmos-rest: /blocks/latest, then the bonded validators (best effort)
checkCosmosRest(ep, stage, details, ex, dt) ==
  LET res == httpRequest(ex) IN
  IF stage = 1 THEN
    IF res.kind = "throw" THEN res
    ELSE IF res.value.statusCode # 200 THEN Throw(HttpError(res.value.statusCode))
    ELSE IF ~res.value.body.json THEN Throw(SyntaxError)
    ELSE LET header == res.value.body IN
      IF ~header.hasInfo THEN Await(2, NoDetails)
      ELSE LET d1 == [blockAgeSec |-> RoundSeconds(header.ageMs)] IN
        IF header.ageMs > CHAIN_HALT_THRESHOLD_SECONDS * 1000
          THEN Return(result(ep, "DEGRADED", dt, d1, JsStr(HaltMessage(header.ageMs))))
          ELSE Await(2, d1)
  ELSE
    Return(result(ep, "UP", dt, BestEffort(details, "bondedValidators", res), JsUndefined))

\* String.prototype.toLowerCase on the letters A-Z
LowerChar(c) ==
  CASE c = "A" -> "a" [] c = "B" -> "b" [] c = "C" -> "c" [] c = "D" -> "d"
    [] c = "E" -> "e" [] c = "F" -> "f" [] c = "G" -> "g" [] c = "H" -> "h"
    [] c = "I" -> "i" [] c = "J" -> "j" [] c = "K" -> "k" [] c = "L" -> "l"
    [] c = "M" -> "m" [] c = "N" -> "n" [] c = "O" -> "o" [] c = "P" -> "p"
    [] c = "Q" -> "q" [] c = "R" -> "r" [] c = "S" -> "s" [] c = "T" -> "t"
    [] c = "U" -> "u" [] c = "V" -> "v" [] c = "W" -> "w" [] c = "X" -> "x"
    [] c = "Y" -> "y" [] c = "Z" -> "z" [] OTHER -> c

RECURSIVE ToLower(_)
ToLower(str) ==
  IF Len(str) = 0 THEN ""
  ELSE LowerChar(SubSeq(str, 1, 1)) \o ToLower(SubSeq(str, 2, Len(str)))

\* str contains tok
Contains(str, tok) ==
  \E i \in 1..(Len(str) - Len(tok) + 1) : SubSeq(str, i, i + Len(tok) - 1) = tok

\* /down|unhealthy|error|fail/i.test(str)
ComponentUnhealthy(str) ==
  \E tok \in {"down", "unhealthy", "error", "fail"} : Contains(ToLower(str), tok)

\* /down|unhealthy|error/i.test(str)
StatusUnhealthy(str) ==
  \E tok \in {"down", "unhealthy", "error"} : Contains(ToLower(str), tok)

\* a sub-component of a health body: an object with a status, a bare string,
\* or null
Component(key, kind, status) == [key |-> key, kind |-> kind, status |-> status]
ComponentLists ==
  {<<>>,
   <<Component("db", "object", "down")>>,
   <<Component("failover-db", "object", "ok"), Component("cache", "string", "Unhealthy")>>,
   <<Component("queue", "object", "FAILED"), Component("db", "object", "error")>>,
   <<Component("db", "null", ""), Component("cache", "object", "down")>>}
HealthStatuses == {"", "ok", "DOWN", "failing"}

\* health bodies: not JSON, JSON null, or an object with a status ("" when
\* absent) and sub-components
DeepHealthBodies ==
  {NotJson, [json |-> TRUE, isNull |-> TRUE]}
  \cup {[json |-> TRUE, isNull |-> FALSE, status |-> st, components |-> cs] :
          st \in HealthStatuses, cs \in ComponentLists}

\* the index of the first component the loop stops at: one that is null
\* (reading its status throws) or whose status is unhealthy; 0 when none
FirstStop(components) ==
  LET Stops(i) == \/ components[i].kind = "null"
                  \/ /\ components[i].status # ""
                     /\ ComponentUnhealthy(components[i].status)
  IN IF \E i \in 1..Len(components) : Stops(i)
       THEN CHOOSE i \in 1..Len(components) :
              Stops(i) /\ \A j \in 1..(i - 1) : ~Stops(j)
       ELSE 0

\* deep-health: the health URL, then on 404 the base URL
checkDeepHealth(ep, stage, details, ex, dt) ==
  LET res == httpRequest(ex) IN
  IF res.kind = "throw" THEN res
  ELSE IF stage = 2 THEN
    IF res.value.statusCode < 500
      THEN Return(result(ep, "UP", dt,
                         [statusCode |-> res.value.statusCode, fallback |-> TRUE],
                         JsUndefined))
      ELSE Throw(HttpError(res.value.statusCode))
  ELSE IF res.value.statusCode = 404 THEN Await(2, [statusCode |-> 404])
  ELSE IF res.value.statusCode >= 200 /\ res.value.statusCode < 400 THEN
    LET data == res.value.body
        base == [statusCode |-> res.value.statusCode]
    IN IF ~data.json \/ data.isNull
         THEN Return(result(ep, "UP", dt, base, JsUndefined))
       ELSE LET d1 == IF data.status # ""
                        THEN [statusCode |-> res.value.statusCode,
                              healthStatus |-> data.status]
                        ELSE base
                stop == FirstStop(data.components)
            IN IF stop # 0 /\ data.components[stop].kind = "null"
                 THEN Return(result(ep, "UP", dt, d1, JsUndefined))
               ELSE IF stop # 0
                 THEN Return(result(ep, "DEGRADED", dt, d1,
                        JsStr(data.components[stop].key \o " is unhealthy")))
               ELSE IF data.status # "" /\ StatusUnhealthy(data.status)
                 THEN Return(result(ep, "DEGRADED", dt, d1,
                        JsStr("Health reports: " \o data.status)))
               ELSE Return(result(ep, "UP", dt, d1, JsUndefined))
  ELSE Throw(HttpError(res.value.statusCode))

-----------------------------------------------------------------------------
(* The check registry and the runner (lib/health.js)                       *)

\* the keys of CHECK_FNS
CheckTypes ==
  {"evm-rpc", "cosmos-rpc", "cosmos-rest", "http-json", "http-get", "websocket",
   "api-health", "http-reachable", "deep-health", "graphql", "cosmos-peer-check"}

\* new URL(url) throws on a string that is no URL
ValidUrl(url) == Len(url) >= 8 /\ SubSeq(url, 1, 4) \in {"http", "wss:"}
InvalidUrl == Err("TypeError", "ERR_INVALID_URL", "Invalid URL")

\* the URL of the probe's first request
FirstUrl(ep) ==
  IF ep.checkType = "cosmos-peer-check" THEN ep.publicRpc \o "/net_info" ELSE ep.url

\* the ways the request in flight at `stage` of ep's probe can end
Requests(ep, stage) ==
  CASE ep.checkType = "evm-rpc" -> Exchanges(RpcBodies(stage))
    [] ep.checkType = "cosmos-rpc" ->
         IF stage = 1 THEN Exchanges(ChainBodies(BOOLEAN)) ELSE Exchanges(CountBodies)
    [] ep.checkType = "cosmos-rest" ->
         IF stage = 1 THEN Exchanges(ChainBodies({FALSE})) ELSE Exchanges(CountBodies)
    [] ep.checkType = "http-json" -> Exchanges(HttpJsonBodies)
    [] ep.checkType = "websocket" -> Handshakes
    [] ep.checkType = "api-health" -> Exchanges(ApiHealthBodies)
    [] ep.checkType = "deep-health" ->
         IF stage = 1 THEN Exchanges(DeepHealthBodies) ELSE Exchanges(PlainBodies)
    [] ep.checkType = "graphql" -> Exchanges(GraphqlBodies)
    [] ep.checkType = "cosmos-peer-check" -> Exchanges(PeerBodies)
    [] OTHER -> Exchanges(PlainBodies)

\* CHECK_FNS[ep.checkType], resumed at `stage` when its request has ended
CHECK_FNS(ep, stage, details, ex, dt) ==
  CASE ep.checkType = "evm-rpc" -> checkEvmRpc(ep, stage, details, ex, dt)
    [] ep.checkType = "cosmos-rpc" -> checkCosmosRpc(ep, stage, details, ex, dt)
    [] ep.checkType = "cosmos-rest" -> checkCosmosRest(ep, stage, details, ex, dt)
    [] ep.checkType = "http-json" -> checkHttpJson(ep, ex, dt)
    [] ep.checkType = "http-get" -> checkHttpGet(ep, ex, dt)
    [] ep.checkType = "websocket" -> checkWebsocket(ep, ex, dt)
    [] ep.checkType = "api-health" -> checkApiHealth(ep, ex, dt)
    [] ep.checkType = "http-reachable" -> checkHttpReachable(ep, ex, dt)
    [] ep.checkType = "deep-health" -> checkDeepHealth(ep, stage, details, ex, dt)
    [] ep.checkType = "graphql" -> checkGraphql(ep, ex, dt)
    [] ep.checkType = "cosmos-peer-check" -> checkCosmosPeer(ep, ex, dt)

\* the probe has no entry in CHECK_FNS
NoFn == [kind |-> "nofn"]

\* fn(ep) up to its first suspension: nothing for an unknown check type, a
\* throw when the URL of the first request does not parse, else the first
\* request in flight
StartProbe(ep) ==
  IF ep.checkType \notin CheckTypes THEN NoFn
  ELSE IF ~ValidUrl(FirstUrl(ep)) THEN Throw(InvalidUrl)
  ELSE Await(1, NoDetails)

Settled(probe) == probe.kind \in {"nofn", "return", "throw"}

FirewallCodes == {"ECONNREFUSED", "ECONNRESET", "EHOSTUNREACH"}

\* a settled promise, as Promise.allSettled reports it
Fulfilled(value) == [status |-> "fulfilled", value |-> value]
Rejected(reason) == [status |-> "rejected", reason |-> reason]

\* runCheck with the catch branch reporting a status of its own
runCheckError(ep, probe) ==
  IF probe.kind = "nofn"
    THEN Fulfilled(result(ep, "DOWN", 0, NoDetails,
                          JsStr("Unknown check type: " \o ep.checkType)))
  ELSE IF probe.kind = "return" THEN Fulfilled(probe.value)
  ELSE Fulfilled(result(ep, "ERROR", 0, NoDetails, JsStr(probe.err.message)))

\* runCheck timing the lookup of an unregistered check type
runCheckTimed(ep, probe) ==
  IF probe.kind = "nofn"
    THEN Fulfilled(result(ep, "DOWN", 1, NoDetails,
                          JsStr("Unknown check type: " \o ep.checkType)))
  ELSE IF probe.kind = "return" THEN Fulfilled(probe.value)
  ELSE LET err == probe.err
           firewalled == ep.category = "validators" /\ err.code \in FirewallCodes
       IN Fulfilled(result(ep, IF firewalled THEN "DEGRADED" ELSE "DOWN", 0, NoDetails,
                           IF firewalled THEN JsStr("Unreachable (likely firewalled)")
                           ELSE OrElse(JsStr(err.message), JsStr(ErrToString(err)))))

\* runCheck applying the firewall rule to every category
runCheckAnyCategory(ep, probe) ==
  IF probe.kind = "nofn"
    THEN Fulfilled(result(ep, "DOWN", 0, NoDetails,
                          JsStr("Unknown check type: " \o ep.checkType)))
  ELSE IF probe.kind = "return" THEN Fulfilled(probe.value)
  ELSE LET err == probe.err
           firewalled == err.code \in FirewallCodes
       IN Fulfilled(result(ep, IF firewalled THEN "DEGRADED" ELSE "DOWN", 0, NoDetails,
                           IF firewalled THEN JsStr("Unreachable (likely firewalled)")
                           ELSE OrElse(JsStr(err.message), JsStr(ErrToString(err)))))

\* what the promise of runCheck(ep) settles to, once fn(ep) has settled as
\* `probe`
runCheck(ep, probe) ==
  IF probe.kind = "nofn"
    THEN Fulfilled(result(ep, "DOWN", 0, NoDetails,
                          JsStr("Unknown check type: " \o ep.checkType)))
  ELSE IF probe.kind = "return" THEN Fulfilled(probe.value)
  ELSE LET err == probe.err
           isFirewall == err.code \in FirewallCodes
           firewalled == ep.category = "validators" /\ isFirewall
           status == IF firewalled THEN "DEGRADED" ELSE "DOWN"
           errMsg == IF firewalled THEN JsStr("Unreachable (likely firewalled)")
                     ELSE OrElse(JsStr(err.message), JsStr(ErrToString(err)))
       IN Fulfilled(result(ep, status, 0, NoDetails, errMsg))

\* Object.assign({ enabledOnly: true }, opts || {})
WithDefaults(opts) ==
  [opts EXCEPT !.enabledOnly = IF opts.enabledOnly = "absent" THEN "true"
                               ELSE opts.enabledOnly]

\* checkAll handing the results back in the opposite order
checkAllReversed(cycle) ==
  [i \in 1..Len(cycle.endpoints) |->
     LET k == Len(cycle.endpoints) + 1 - i IN
     runCheck(cycle.endpoints[k], cycle.probes[k]).value]

\* the value checkAll resolves with: results.map over what
\* Promise.allSettled(endpoints.map(runCheck)) reports, in the order of the
\* endpoints
checkAll(cycle) ==
  [i \in 1..Len(cycle.endpoints) |->
     LET r == runCheck(cycle.endpoints[i], cycle.probes[i]) IN
     IF r.status = "fulfilled" THEN r.value
     ELSE result(cycle.endpoints[i], "DOWN", 0, NoDetails,
                 OrElse(JsStr(r.reason.message), JsStr("Check failed")))]

-----------------------------------------------------------------------------
(* The history store (lib/history.js)                                      *)

MAX_SNAPSHOTS == 120

\* JSON text, as the tree of values it denotes; an object is the sequence of
\* its members in the order they are written
JNull == [j |-> "null"]
JNum(n) == [j |-> "number", n |-> n]
JArr(items) == [j |-> "array", items |-> items]
JObj(members) == [j |-> "object", members |-> members]
Member(key, value) == [key |-> key, value |-> value]

HasKey(obj, key) == \E i \in 1..Len(obj.members) : obj.members[i].key = key
Get(obj, key) == obj.members[CHOOSE i \in 1..Len(obj.members) : obj.members[i].key = key].value

\* the backing file: absent, present but unreadable, or holding a text
Missing == [kind |-> "missing"]
Unreadable == [kind |-> "unreadable"]
Text(content) == [kind |-> "text", content |-> content]
Json(doc) == [json |-> TRUE, doc |-> doc]

\* an entry of history.snapshots in memory: { t, ep } with ep the sequence of
\* [id, s, ms] in key order, an object lacking t or ep, or null
NullEntry == [null |-> TRUE]
Malformed(entry) == "ep" \notin DOMAIN entry

\* JSON.stringify of an entry, of a history
StringifyEntry(entry) ==
  IF entry = NullEntry THEN JNull
  ELSE JObj((IF "t" \in DOMAIN entry THEN <<Member("t", JNum(entry.t))>> ELSE <<>>)
         \o (IF "ep" \in DOMAIN entry
               THEN <<Member("ep", JObj([k \in 1..Len(entry.ep) |->
                        Member(entry.ep[k].id,
                               JObj(<<Member("s", JNum(entry.ep[k].s)),
                                      Member("ms", JNum(entry.ep[k].ms))>>))]))>>
               ELSE <<>>))

JSON_stringify(history) ==
  JObj(<<Member("snapshots",
                JArr([i \in 1..Len(history.snapshots) |->
                        StringifyEntry(history.snapshots[i])]))>>)

\* JSON.parse of the text of an entry
ParseEp(obj) ==
  [k \in 1..Len(obj.members) |->
     [id |-> obj.members[k].key,
      s |-> Get(obj.members[k].value, "s").n,
      ms |-> Get(obj.members[k].value, "ms").n]]

ParseEntry(doc) ==
  IF doc.j = "null" THEN NullEntry
  ELSE IF HasKey(doc, "t") /\ HasKey(doc, "ep")
    THEN [t |-> Get(doc, "t").n, ep |-> ParseEp(Get(doc, "ep"))]
  ELSE IF HasKey(doc, "ep") THEN [ep |-> ParseEp(Get(doc, "ep"))]
  ELSE IF HasKey(doc, "t") THEN [t |-> Get(doc, "t").n]
  ELSE [other |-> TRUE]

\* what loadHistory does with the file: readFileSync throws, JSON.parse
\* throws, the data has no snapshots array, or it has one
ReadAs(f) ==
  IF f.kind # "text" THEN f.kind
  ELSE IF ~f.content.json THEN "not json"
  ELSE IF f.content.doc.j = "null" THEN "null"
  ELSE IF /\ f.content.doc.j = "object"
          /\ HasKey(f.content.doc, "snapshots")
          /\ Get(f.content.doc, "snapshots").j = "array" THEN "array"
  ELSE "no array"

\* loadHistory taking its catch branch whatever the file holds
loadHistoryFresh(f) == [snapshots |-> <<>>]

loadHistory(f) ==
  IF ReadAs(f) = "array"
    THEN LET items == Get(f.content.doc, "snapshots").items IN
         [snapshots |-> [i \in 1..Len(items) |-> ParseEntry(items[i])]]
    ELSE [snapshots |-> <<>>]

\* the ways writeFileSync can end: the text is written, the write fails and
\* leaves the file as it was, or fails after truncating it
SaveOutcomes == {"written", "failed", "torn"}

\* saveHistory writing the newest snapshot alone
saveHistoryLatestOnly(f, history, outcome) ==
  Text(Json(JSON_stringify(
    [snapshots |-> SubSeq(history.snapshots, Len(history.snapshots),
                          Len(history.snapshots))])))

\* the file after saveHistory(history)
saveHistory(f, history, outcome) ==
  IF outcome = "written" THEN Text(Json(JSON_stringify(history)))
  ELSE IF outcome = "torn" THEN Text(NotJson)
  ELSE f

\* the ep map recordSnapshot builds: one key per result id in the order of
\* first appearance, holding the last result of that id
StatusCode(status) == IF status = "UP" THEN 1 ELSE IF status = "DEGRADED" THEN 2 ELSE 0

EpOf(results) ==
  LET idx == [i \in 1..Len(results) |-> i]
      firsts == SelectSeq(idx, LAMBDA i : \A j \in 1..(i - 1) : results[j].id # results[i].id)
  IN [k \in 1..Len(firsts) |->
        LET id == results[firsts[k]].id
            last == CHOOSE i \in 1..Len(results) :
                      /\ results[i].id = id
                      /\ \A j \in (i + 1)..Len(results) : results[j].id # id
        IN [id |-> id, s |-> StatusCode(results[last].status),
            ms |-> results[last].responseTimeMs]]

\* recordSnapshot keeping the first MAX_SNAPSHOTS entries
recordSnapshotKeepFirst(history, results, t) ==
  LET pushed == Append(history.snapshots, [t |-> t, ep |-> EpOf(results)])
  IN [snapshots |-> IF Len(pushed) > MAX_SNAPSHOTS
                      THEN SubSeq(pushed, 1, MAX_SNAPSHOTS)
                      ELSE pushed]

\* recordSnapshot adding the snapshot at the front
recordSnapshotFront(history, results, t) ==
  LET pushed == <<[t |-> t, ep |-> EpOf(results)]>> \o history.snapshots
  IN [snapshots |-> IF Len(pushed) > MAX_SNAPSHOTS
                      THEN SubSeq(pushed, 1, MAX_SNAPSHOTS)
                      ELSE pushed]

\* recordSnapshot without the slice
recordSnapshotNoSlice(history, results, t) ==
  [snapshots |-> Append(history.snapshots, [t |-> t, ep |-> EpOf(results)])]

\* recordSnapshot(history, results), with t the value Date.now() returns
recordSnapshot(history, results, t) ==
  LET pushed == Append(history.snapshots, [t |-> t, ep |-> EpOf(results)])
  IN [snapshots |-> IF Len(pushed) > MAX_SNAPSHOTS
                      THEN SubSeq(pushed, Len(pushed) - MAX_SNAPSHOTS + 1, Len(pushed))
                      ELSE pushed]

\* the index of id in an ep map, or 0
KeyIndex(ep, id) ==
  IF \E k \in 1..Len(ep) : ep[k].id = id
    THEN CHOOSE k \in 1..Len(ep) : ep[k].id = id
    ELSE 0

NoPoint == [null |-> TRUE, v |-> 0]
Point(v) == [null |-> FALSE, v |-> v]

ReadOfMissing == TypeError("Cannot read properties of undefined")

\* getSparklines and getUptimes read snap.ep[id] for every id of the latest
\* snapshot and every snapshot: a TypeError when the latest snapshot has no
\* ep, or has ids while some snapshot has no ep
KeysThrow(history) ==
  LET snapshots == history.snapshots
      n == Len(snapshots)
  IN /\ n > 0
     /\ \/ Malformed(snapshots[n])
        \/ Len(snapshots[n].ep) > 0 /\ \E i \in 1..n : Malformed(snapshots[i])

\* getIncidents reads Object.keys(snap.ep) of every snapshot once there are
\* two of them
IncidentsThrow(history) ==
  /\ Len(history.snapshots) >= 2
  /\ \E i \in 1..Len(history.snapshots) : Malformed(history.snapshots[i])

\* getSparklines pushing ep.ms whatever the status
getSparklinesMs(history) ==
  LET snapshots == history.snapshots
      n == Len(snapshots)
  IN IF n = 0 THEN Return(<<>>)
     ELSE Return([k \in 1..Len(snapshots[n].ep) |->
            [id |-> snapshots[n].ep[k].id,
             points |-> [i \in 1..n |->
               LET at == KeyIndex(snapshots[i].ep, snapshots[n].ep[k].id) IN
               IF at = 0 THEN NoPoint ELSE Point(snapshots[i].ep[at].ms)]]])

\* getSparklines taking the ids from the oldest snapshot
getSparklinesOldest(history) ==
  LET snapshots == history.snapshots
      n == Len(snapshots)
  IN IF KeysThrow(history) THEN Throw(ReadOfMissing)
     ELSE IF n = 0 THEN Return(<<>>)
     ELSE Return([k \in 1..Len(snapshots[1].ep) |->
            [id |-> snapshots[1].ep[k].id,
             points |-> [i \in 1..n |->
               LET at == KeyIndex(snapshots[i].ep, snapshots[1].ep[k].id) IN
               IF at = 0 THEN NoPoint
               ELSE IF snapshots[i].ep[at].s = 0 THEN Point(-1)
               ELSE Point(snapshots[i].ep[at].ms)]]])

\* getSparklines: per id of the latest snapshot, one point per snapshot
getSparklines(history) ==
  LET snapshots == history.snapshots
      n == Len(snapshots)
  IN IF KeysThrow(history) THEN Throw(ReadOfMissing)
     ELSE IF n = 0 THEN Return(<<>>)
     ELSE Return([k \in 1..Len(snapshots[n].ep) |->
            [id |-> snapshots[n].ep[k].id,
             points |-> [i \in 1..n |->
               LET at == KeyIndex(snapshots[i].ep, snapshots[n].ep[k].id) IN
               IF at = 0 THEN NoPoint
               ELSE IF snapshots[i].ep[at].s = 0 THEN Point(-1)
               ELSE Point(snapshots[i].ep[at].ms)]]])

\* Math.round((up / total) * 10000), the uptime in hundredths of a percent
Hundredths(up, total) == (2 * up * 10000 + total) \div (2 * total)

\* getUptimes counting every snapshot in which the endpoint is not DOWN
getUptimesNotDown(history) ==
  LET snapshots == history.snapshots
      n == Len(snapshots)
  IN IF n = 0 THEN Return(<<>>)
     ELSE Return([k \in 1..Len(snapshots[n].ep) |->
            LET id == snapshots[n].ep[k].id
                seen == {i \in 1..n : KeyIndex(snapshots[i].ep, id) # 0}
                up == {i \in seen : snapshots[i].ep[KeyIndex(snapshots[i].ep, id)].s # 0}
            IN [id |-> id,
                uptime |-> IF Cardinality(seen) > 0
                             THEN Hundredths(Cardinality(up), Cardinality(seen))
                             ELSE 10000]])

\* getUptimes: per id of the latest snapshot, the share of its snapshots
\* that are UP
getUptimes(history) ==
  LET snapshots == history.snapshots
      n == Len(snapshots)
  IN IF KeysThrow(history) THEN Throw(ReadOfMissing)
     ELSE IF n = 0 THEN Return(<<>>)
     ELSE Return([k \in 1..Len(snapshots[n].ep) |->
            LET id == snapshots[n].ep[k].id
                seen == {i \in 1..n : KeyIndex(snapshots[i].ep, id) # 0}
                up == {i \in seen : snapshots[i].ep[KeyIndex(snapshots[i].ep, id)].s = 1}
            IN [id |-> id,
                uptime |-> IF Cardinality(seen) > 0
                             THEN Hundredths(Cardinality(up), Cardinality(seen))
                             ELSE 10000]])

\* STATUS_NAMES[s] || 'UNKNOWN'
STATUS_NAMES(s) ==
  IF s = 0 THEN "DOWN" ELSE IF s = 1 THEN "UP" ELSE IF s = 2 THEN "DEGRADED" ELSE "UNKNOWN"

\* currentStatus[id] when the scan reaches snapshot i: the status of id in
\* the latest earlier snapshot that holds it, or -1 (undefined) when none does
PrevStatus(snapshots, i, id) ==
  LET holders == {j \in 1..(i - 1) : KeyIndex(snapshots[j].ep, id) # 0}
  IN IF holders = {} THEN -1
     ELSE LET j == CHOOSE h \in holders : \A g \in holders : g <= h
          IN snapshots[j].ep[KeyIndex(snapshots[j].ep, id)].s

\* the places <<i, k>> (snapshot, key) at which the scan pushes an incident
Transitions(snapshots) ==
  {p \in UNION {{<<i, k>> : k \in 1..Len(snapshots[i].ep)} : i \in 2..Len(snapshots)} :
     LET prev == PrevStatus(snapshots, p[1], snapshots[p[1]].ep[p[2]].id)
     IN prev # -1 /\ prev # snapshots[p[1]].ep[p[2]].s}

\* the order of incidents.sort((a, b) => a.at - b.at), oldest first
SortsBeforeOldest(snapshots, p, q) ==
  \/ snapshots[p[1]].t < snapshots[q[1]].t
  \/ /\ snapshots[p[1]].t = snapshots[q[1]].t
     /\ (p[1] < q[1] \/ (p[1] = q[1] /\ p[2] < q[2]))

\* incidents.sort((a, b) => b.at - a.at) is stable: p comes before q when it
\* is newer, or as old and pushed earlier
SortsBefore(snapshots, p, q) ==
  \/ snapshots[p[1]].t > snapshots[q[1]].t
  \/ /\ snapshots[p[1]].t = snapshots[q[1]].t
     /\ (p[1] < q[1] \/ (p[1] = q[1] /\ p[2] < q[2]))

\* getIncidents: the status transitions, newest first
getIncidents(history) ==
  LET snapshots == history.snapshots
      n == Len(snapshots)
  IN IF IncidentsThrow(history) THEN Throw(ReadOfMissing)
     ELSE IF n < 2 THEN Return(<<>>)
     ELSE LET places == Transitions(snapshots)
          IN Return([r \in 1..Cardinality(places) |->
               LET p == CHOOSE q \in places :
                          Cardinality({o \in places : SortsBefore(snapshots, o, q)}) = r - 1
                   id == snapshots[p[1]].ep[p[2]].id
               IN [id |-> id,
                   fromStatus |-> STATUS_NAMES(PrevStatus(snapshots, p[1], id)),
                   toStatus |-> STATUS_NAMES(snapshots[p[1]].ep[p[2]].s),
                   at |-> snapshots[p[1]].t]])

-----------------------------------------------------------------------------
(* One call of checkAll, as a cycle                                        *)

Cycles == 1..MaxCycles

NoOpts == [category |-> "", environment |-> "", enabledOnly |-> "absent"]
NoResponse == [status |-> 0]
\* no derivation called yet, no traversal running
NoMetrics == [called |-> "no", history |-> [snapshots |-> <<>>]]
NoWalk == [pc |-> "idle"]
Idle == [pc |-> "idle", opts |-> NoOpts, endpoints |-> <<>>, probes |-> <<>>,
         sent |-> <<>>, ended |-> <<>>, order |-> <<>>, results |-> <<>>,
         began |-> 0, read |-> "", hist |-> [snapshots |-> <<>>],
         saved |-> FALSE, response |-> NoResponse]

\* the filters a caller can ask for
Categories == {"", "validators", "frontends"}
Environments == {"", "prod"}
Flags == {"absent", "true", "false"}

\* checkAll(opts) up to its await: select the endpoints and start a
\* runCheck for each
Start(c, opts) ==
  LET endpoints == getEndpoints(WithDefaults(opts))
      probes == [i \in 1..Len(endpoints) |-> StartProbe(endpoints[i])]
  IN cycles' = [cycles EXCEPT ![c] =
       [Idle EXCEPT !.pc = "checking", !.opts = opts, !.endpoints = endpoints,
        !.probes = probes,
        !.sent = [i \in 1..Len(endpoints) |-> IF probes[i].kind = "await" THEN 1 ELSE 0],
        !.ended = [i \in 1..Len(endpoints) |-> <<>>],
        !.began = Len(done)]]

\* another module calls the exported checkAll with any options
CallCheckAll(c) ==
  /\ cycles[c].pc = "idle"
  /\ \E cat \in Categories, env \in Environments, flag \in Flags :
       Start(c, [category |-> cat, environment |-> env, enabledOnly |-> flag])
  /\ UNCHANGED <<ENDPOINTS, net, now, file, done, store, appended, metrics, walk>>

\* a request of the probe of endpoint i ends: the probe resumes, and either
\* issues its next request or settles; ended[i] lists how its requests ended
Exchange(c, i) ==
  /\ cycles[c].pc = "checking"
  /\ i \in 1..Len(cycles[c].endpoints)
  /\ cycles[c].probes[i].kind = "await"
  /\ \E ex \in Requests(cycles[c].endpoints[i], cycles[c].probes[i].stage),
        dt \in 0..MaxElapsed :
       LET ep == cycles[c].endpoints[i]
           next == CHECK_FNS(ep, cycles[c].probes[i].stage,
                             cycles[c].probes[i].details, ex, dt)
       IN cycles' = [cycles EXCEPT
            ![c].probes[i] = next,
            ![c].sent[i] = IF next.kind = "await" THEN @ + 1 ELSE @,
            ![c].ended[i] = Append(@, ex),
            ![c].order = IF next.kind = "await" THEN @ ELSE Append(@, i)]
  /\ UNCHANGED <<ENDPOINTS, net, now, file, done, store, appended, metrics, walk>>

\* the join waiting for ever on a probe that timed out
AllSettledUntimed(cycle) ==
  \A i \in 1..Len(cycle.endpoints) :
    /\ Settled(cycle.probes[i])
    /\ ~(cycle.probes[i].kind = "throw" /\ cycle.probes[i].err.message = "timeout")

AllSettled(cycle) == \A i \in 1..Len(cycle.endpoints) : Settled(cycle.probes[i])

\* every runCheck has settled: the promise of checkAll resolves
Resolve(c) ==
  /\ cycles[c].pc = "checking"
  /\ AllSettled(cycles[c])
  /\ cycles' = [cycles EXCEPT ![c].pc = "done", ![c].results = checkAll(cycles[c])]
  /\ done' = Append(done, c)
  /\ UNCHANGED <<ENDPOINTS, net, now, file, store, appended, metrics, walk>>

-----------------------------------------------------------------------------
(* The exported checkAll, called once with any options                     *)

Url == "https://host.example"

\* a registry of one enabled endpoint
Single(checkType, category) ==
  <<Endpoint("ep-1", category, "prod", checkType, TRUE, Url)>>

\* a registry with a validator, an endpoint whose URL does not parse, an
\* endpoint whose check type is not registered, a disabled endpoint and an API
Mixed ==
  <<Endpoint("val-1", "validators", "prod", "http-get", TRUE, Url),
    Endpoint("bad-url", "apis", "dev", "http-get", TRUE, "not a url"),
    Endpoint("odd", "apis", "prod", "bogus", TRUE, Url),
    Endpoint("off", "validators", "prod", "http-get", FALSE, Url),
    Endpoint("api-1", "apis", "prod", "http-get", TRUE, Url)>>

CheckRegistries ==
  {Single(ct, cat) : ct \in CheckTypes \cup {"bogus"}, cat \in {"validators", "apis"}}
  \cup {Mixed}

InitCheck ==
  /\ ENDPOINTS \in CheckRegistries
  /\ net = [codes |-> AllCodes, faults |-> AllFaults, saves |-> SaveOutcomes,
            queries |-> {}]
  /\ now = 0
  /\ file = Missing
  /\ cycles = [c \in Cycles |-> Idle]
  /\ done = <<>>
  /\ store = [snapshots |-> <<>>]
  /\ appended = <<>>
  /\ metrics = NoMetrics
  /\ walk = NoWalk

NextCheck ==
  \/ CallCheckAll(1)
  \/ \E i \in 1..Len(ENDPOINTS) : Exchange(1, i)
  \/ Resolve(1)

SpecCheck == InitCheck /\ [][NextCheck]_vars

\* every request on the wire ends in a response, an error or a timeout
\* event, and a settled join runs its continuation
SpecCheckRuns ==
  /\ SpecCheck
  /\ WF_vars(\E i \in 1..Len(ENDPOINTS) : Exchange(1, i))
  /\ WF_vars(Resolve(1))

-----------------------------------------------------------------------------
(* The dependency graph and the walks over it                              *)

\* a registry entry with its declarations
Node(id, dependsOn, impacts) ==
  Endpoint(id, "apis", "prod", "http-get", TRUE, Url)
    @@ [dependsOn |-> dependsOn, impacts |-> impacts]

\* ep.dependsOn || [], ep.impacts || []
DependsOn(ep) == IF "dependsOn" \in DOMAIN ep THEN ep.dependsOn ELSE <<>>
Impacts(ep) == IF "impacts" \in DOMAIN ep THEN ep.impacts ELSE <<>>

EmptyNode == [dependsOn |-> <<>>, requiredBy |-> <<>>]
NoGraph == [id \in {} |-> EmptyNode]

\* if (!graph[id]) graph[id] = { dependsOn: [], requiredBy: [] }
Alloc(graph, id) == IF id \in DOMAIN graph THEN graph ELSE graph @@ (id :> EmptyNode)

\* array.indexOf(x) !== -1
IndexOf(array, x) == \E i \in 1..Len(array) : array[i] = x

\* the first loop: a node per registry entry
RECURSIVE InitNodes(_, _, _)
InitNodes(endpoints, i, graph) ==
  IF i > Len(endpoints) THEN graph
  ELSE InitNodes(endpoints, i + 1, Alloc(graph, endpoints[i].id))

\* the second loop: the edges of the dependsOn declarations, pushed as declared
RECURSIVE DependsOnEdges(_, _, _, _)
DependsOnEdges(endpoints, j, k, graph) ==
  IF j > Len(endpoints) THEN graph
  ELSE IF k > Len(DependsOn(endpoints[j])) THEN DependsOnEdges(endpoints, j + 1, 1, graph)
  ELSE LET id == endpoints[j].id
           depId == DependsOn(endpoints[j])[k]
           pushed == Alloc([graph EXCEPT ![id].dependsOn = Append(@, depId)], depId)
       IN DependsOnEdges(endpoints, j, k + 1,
                         [pushed EXCEPT ![depId].requiredBy = Append(@, id)])

\* the third loop: the edges of the impacts declarations, pushed when new
RECURSIVE ImpactsEdges(_, _, _, _)
ImpactsEdges(endpoints, m, n, graph) ==
  IF m > Len(endpoints) THEN graph
  ELSE IF n > Len(Impacts(endpoints[m])) THEN ImpactsEdges(endpoints, m + 1, 1, graph)
  ELSE LET id == endpoints[m].id
           impId == Impacts(endpoints[m])[n]
           own == Alloc(graph, id)
           required == IF IndexOf(own[id].requiredBy, impId) THEN own
                       ELSE [own EXCEPT ![id].requiredBy = Append(@, impId)]
           other == Alloc(required, impId)
       IN ImpactsEdges(endpoints, m, n + 1,
                       IF IndexOf(other[impId].dependsOn, id) THEN other
                       ELSE [other EXCEPT ![impId].dependsOn = Append(@, id)])

\* getDependencyGraph reading only the dependsOn declarations
getDependencyGraphDependsOn(endpoints) ==
  DependsOnEdges(endpoints, 1, 1, InitNodes(endpoints, 1, NoGraph))

\* getDependencyGraph() over the registry
getDependencyGraph(endpoints) ==
  ImpactsEdges(endpoints, 1, 1,
    DependsOnEdges(endpoints, 1, 1, InitNodes(endpoints, 1, NoGraph)))

\* the inner for loop of the traversals over node.requiredBy: the dependents
\* not yet visited, in order, each once
RECURSIVE Visit(_, _, _, _)
Visit(dependents, i, visited, added) ==
  IF i > Len(dependents) THEN [visited |-> visited, added |-> added]
  ELSE IF dependents[i] \in visited THEN Visit(dependents, i + 1, visited, added)
  ELSE Visit(dependents, i + 1, visited \cup {dependents[i]}, Append(added, dependents[i]))

\* node.requiredBy || [] of graph[current], nothing when graph[current] is
\* undefined
RequiredBy(graph, current) ==
  IF current \in DOMAIN graph THEN graph[current].requiredBy ELSE <<>>

\* the state of a traversal when it starts
Begin(fn, start) ==
  [fn |-> fn, start |-> start, visited |-> {start}, queue |-> <<start>>,
   count |-> 0, impacted |-> <<>>, levels |-> <<>>]

\* one turn of getBlastRadius counting every dependent it meets
getBlastRadiusMet(w, graph) ==
  LET seen == Visit(RequiredBy(graph, Head(w.queue)), 1, w.visited, <<>>)
  IN [w EXCEPT !.visited = seen.visited,
               !.queue = Tail(w.queue) \o seen.added,
               !.count = @ + Len(RequiredBy(graph, Head(w.queue)))]

\* one turn of the while loop of getBlastRadius(endpointId, graph)
getBlastRadius(w, graph) ==
  LET seen == Visit(RequiredBy(graph, Head(w.queue)), 1, w.visited, <<>>)
  IN [w EXCEPT !.visited = seen.visited,
               !.queue = Tail(w.queue) \o seen.added,
               !.count = @ + Len(seen.added)]

\* one turn of getImpactedServices that does not queue what it found
getImpactedServicesDirect(w, graph) ==
  LET seen == Visit(RequiredBy(graph, Head(w.queue)), 1, w.visited, <<>>)
  IN [w EXCEPT !.visited = seen.visited,
               !.queue = Tail(w.queue),
               !.impacted = @ \o seen.added]

\* one turn of the while loop of getImpactedServices(downId)
getImpactedServices(w, graph) ==
  LET seen == Visit(RequiredBy(graph, Head(w.queue)), 1, w.visited, <<>>)
  IN [w EXCEPT !.visited = seen.visited,
               !.queue = Tail(w.queue) \o seen.added,
               !.impacted = @ \o seen.added]

\* the for loop of buildCascadeTree over currentLevel
RECURSIVE NextLevel(_, _, _, _, _)
NextLevel(graph, currentLevel, i, visited, nextLevel) ==
  IF i > Len(currentLevel) THEN [visited |-> visited, added |-> nextLevel]
  ELSE LET seen == Visit(RequiredBy(graph, currentLevel[i]), 1, visited, nextLevel)
       IN NextLevel(graph, currentLevel, i + 1, seen.visited, seen.added)

\* one turn of buildCascadeTree pushing every level it computes
buildCascadeTreeEvery(w, graph) ==
  LET level == NextLevel(graph, w.queue, 1, w.visited, <<>>)
  IN [w EXCEPT !.visited = level.visited,
               !.queue = level.added,
               !.levels = Append(@, level.added)]

\* one turn of the while loop of buildCascadeTree(startId, graph)
buildCascadeTree(w, graph) ==
  LET level == NextLevel(graph, w.queue, 1, w.visited, <<>>)
  IN [w EXCEPT !.visited = level.visited,
               !.queue = level.added,
               !.levels = IF Len(level.added) > 0 THEN Append(@, level.added) ELSE @]

-----------------------------------------------------------------------------
(* The request handler (api/health.js)                                     *)

\* the query strings of the requests: none, ?env=prod, ?category=frontends
Queries ==
  {[env |-> "", category |-> ""], [env |-> "prod", category |-> ""],
   [env |-> "", category |-> "frontends"]}

\* GET /api/health?env=..&category=..: the query gives the environment and
\* the category only, and checkAll(opts) starts
Request(c) ==
  /\ cycles[c].pc = "idle"
  /\ \E query \in net.queries :
       Start(c, [category |-> query.category, environment |-> query.env,
                 enabledOnly |-> "absent"])
  /\ UNCHANGED <<ENDPOINTS, net, now, file, done, store, appended, metrics, walk>>

\* Math.round(ms / 60000)
RoundMinutes(ms) == (ms + 30000) \div 60000

Count(results, status) ==
  Cardinality({i \in 1..Len(results) : results[i].status = status})

\* the history metrics of the payload: the TypeError of getSparklines,
\* getUptimes or getIncidents, or the sizes of the history
Derive(hist) ==
  LET dataPoints == Len(hist.snapshots)
  IN IF KeysThrow(hist) \/ IncidentsThrow(hist) THEN Throw(ReadOfMissing)
     ELSE Return([sparklines |-> getSparklines(hist).value,
                  uptimes |-> getUptimes(hist).value,
                  dataPoints |-> dataPoints,
                  spanMinutes |-> IF dataPoints > 1
                    THEN RoundMinutes(hist.snapshots[dataPoints].t - hist.snapshots[1].t)
                    ELSE 0])

\* getImpactedServices(downId) run until its queue is empty: what it returns
RECURSIVE Impacted(_, _)
Impacted(w, graph) ==
  IF Len(w.queue) = 0 THEN w.impacted
  ELSE Impacted(getImpactedServices(w, graph), graph)

\* ep ? ep.name : id with ep = config.getEndpoint(id), the first registry
\* entry of that id; the empty string stands for a name that is undefined
NameOf(endpoints, id) ==
  IF \E i \in 1..Len(endpoints) : endpoints[i].id = id
    THEN LET ep == endpoints[CHOOSE i \in 1..Len(endpoints) :
                               /\ endpoints[i].id = id
                               /\ \A j \in 1..(i - 1) : endpoints[j].id # id]
         IN IF "name" \in DOMAIN ep THEN ep.name ELSE ""
    ELSE id

\* impactMap[id] = list: an object keeps a key where it was first set
Assign(map, id, list) ==
  IF \E k \in 1..Len(map) : map[k].id = id
    THEN [k \in 1..Len(map) |-> IF map[k].id = id THEN [id |-> id, impacted |-> list]
                                ELSE map[k]]
    ELSE Append(map, [id |-> id, impacted |-> list])

\* the loop building impactMap with an entry for every result
RECURSIVE ImpactMapEvery(_, _, _, _)
ImpactMapEvery(endpoints, results, i, impactMap) ==
  IF i > Len(results) THEN impactMap
  ELSE LET r == results[i]
           impacted == Impacted(Begin("getImpactedServices", r.id),
                                getDependencyGraph(endpoints))
           list == [k \in 1..Len(impacted) |->
                      [id |-> impacted[k], name |-> NameOf(endpoints, impacted[k])]]
       IN ImpactMapEvery(endpoints, results, i + 1, Assign(impactMap, r.id, list))

\* the loop of the handler over the results that builds impactMap
RECURSIVE ImpactMap(_, _, _, _)
ImpactMap(endpoints, results, i, impactMap) ==
  IF i > Len(results) THEN impactMap
  ELSE LET r == results[i]
           impacted == Impacted(Begin("getImpactedServices", r.id),
                                getDependencyGraph(endpoints))
           list == [k \in 1..Len(impacted) |->
                      [id |-> impacted[k], name |-> NameOf(endpoints, impacted[k])]]
       IN IF r.status \in {"DOWN", "DEGRADED"} /\ Len(impacted) > 0
            THEN ImpactMap(endpoints, results, i + 1, Assign(impactMap, r.id, list))
            ELSE ImpactMap(endpoints, results, i + 1, impactMap)

\* checkAll has resolved: the rest of the handler runs without suspension.
\* It builds the impact map, loads the history, records the snapshot, saves,
\* derives the metrics and answers 200 with the summary, or 500 when
\* something threw
Respond(c) ==
  /\ cycles[c].pc = "checking"
  /\ AllSettled(cycles[c])
  /\ LET results == checkAll(cycles[c])
         loaded == loadHistory(file)
     IN \E step \in 0..MaxStep, outcome \in net.saves :
       LET hist == recordSnapshot(loaded, results, now + step)
           derived == Derive(hist)
       IN /\ now' = now + step
          /\ file' = saveHistory(file, hist, outcome)
          /\ cycles' = [cycles EXCEPT
               ![c].pc = "done",
               ![c].results = results,
               ![c].read = ReadAs(file),
               ![c].hist = hist,
               ![c].saved = (outcome = "written"),
               ![c].response =
                 IF derived.kind = "throw"
                   THEN [status |-> 500, error |-> derived.err.message]
                   ELSE [status |-> 200, total |-> Len(results),
                         up |-> Count(results, "UP"),
                         degraded |-> Count(results, "DEGRADED"),
                         down |-> Count(results, "DOWN"),
                         impactMap |-> ImpactMap(ENDPOINTS, results, 1, <<>>),
                         results |-> results,
                         sparklines |-> derived.value.sparklines,
                         uptimes |-> derived.value.uptimes,
                         dataPoints |-> derived.value.dataPoints,
                         spanMinutes |-> derived.value.spanMinutes]]
          /\ done' = Append(done, c)
  /\ UNCHANGED <<ENDPOINTS, net, store, appended, metrics, walk>>

\* the registry of the handler's runs: a validator, an API and a disabled
\* endpoint
Fleet ==
  <<Endpoint("val-1", "validators", "prod", "http-get", TRUE, Url),
    Endpoint("api-1", "apis", "dev", "http-get", TRUE, Url),
    Endpoint("off", "apis", "prod", "http-get", FALSE, Url)>>

\* a history the handler has written: n snapshots of the validator, taken at
\* times 1..n
Written(n) ==
  [snapshots |-> [i \in 1..n |->
     [t |-> i,
      ep |-> <<[id |-> "val-1", s |-> IF i % 7 = 0 THEN 0 ELSE 1,
                ms |-> IF i % 7 = 0 THEN 0 ELSE 1]>>]]]

\* the backing file at the start: absent, unreadable, cut short, JSON without
\* a snapshots array, or a history written earlier
HistoryFiles ==
  {Missing, Unreadable, Text(NotJson), Text(Json(JObj(<<>>)))}
  \cup {Text(Json(JSON_stringify(Written(n)))) : n \in {1, MAX_SNAPSHOTS - 1}}

\* files something else has written: JSON null, snapshots that is no array,
\* and snapshots arrays holding null or an object without ep
CorruptFiles ==
  {Text(Json(JNull)),
   Text(Json(JObj(<<Member("snapshots", JNum(1))>>))),
   Text(Json(JObj(<<Member("snapshots", JArr(<<JNull>>))>>))),
   Text(Json(JObj(<<Member("snapshots", JArr(<<JObj(<<Member("t", JNum(5))>>)>>))>>))),
   Text(Json(JObj(<<Member("snapshots",
     JArr(<<JNull>> \o Get(JSON_stringify(Written(MAX_SNAPSHOTS - 1)), "snapshots").items))>>)))}

InitWith(files, saves, queries) ==
  /\ ENDPOINTS = Fleet
  /\ net = [codes |-> {200}, faults |-> {}, saves |-> saves, queries |-> queries]
  /\ now = MAX_SNAPSHOTS
  /\ file \in files
  /\ cycles = [c \in Cycles |-> Idle]
  /\ done = <<>>
  /\ store = [snapshots |-> <<>>]
  /\ appended = <<>>
  /\ metrics = NoMetrics
  /\ walk = NoWalk

\* runs from a cold start or a short history with every kind of request and
\* saves that succeed or fail, and runs from a history one snapshot short of
\* its capacity with one kind of request and saves that succeed
Init ==
  \/ InitWith({Missing, Text(Json(JSON_stringify(Written(1))))},
              {"written", "failed"}, Queries)
  \/ InitWith({Text(Json(JSON_stringify(Written(MAX_SNAPSHOTS - 1))))},
              {"written"}, {[env |-> "prod", category |-> ""]})

Next ==
  \/ \E c \in Cycles : Request(c)
  \/ \E c \in Cycles, i \in 1..Len(ENDPOINTS) : Exchange(c, i)
  \/ \E c \in Cycles : Respond(c)

Spec == Init /\ [][Next]_vars

\* one request over any backing file
InitCorrupt == InitWith(HistoryFiles \cup CorruptFiles, SaveOutcomes, Queries)

NextCorrupt ==
  \/ Request(1)
  \/ \E i \in 1..Len(ENDPOINTS) : Exchange(1, i)
  \/ Respond(1)

SpecCorrupt == InitCorrupt /\ [][NextCorrupt]_vars

\* a registry with dependencies: the validator impacts the API, the API and
\* the web app depend on each other, the web app also depends on an id that
\* is not registered, and nothing depends on the dashboard
Linked ==
  <<Endpoint("val-1", "validators", "prod", "http-get", TRUE, Url)
      @@ [name |-> "Validator 1", impacts |-> <<"api-1">>],
    Endpoint("api-1", "apis", "prod", "http-get", TRUE, Url)
      @@ [name |-> "API", dependsOn |-> <<"web-1">>],
    Endpoint("web-1", "frontends", "prod", "http-get", TRUE, Url)
      @@ [name |-> "Web", dependsOn |-> <<"api-1", "ghost">>],
    Endpoint("dash-1", "frontends", "dev", "http-get", TRUE, Url)
      @@ [name |-> "Dashboard", dependsOn |-> <<"val-1">>]>>

\* one request, with or without ?env=prod, whose probes get 200, 500, a
\* refused connection or a timeout
InitImpact ==
  /\ ENDPOINTS = Linked
  /\ net = [codes |-> {200, 500}, faults |-> {ECONNREFUSED}, saves |-> {"written"},
            queries |-> {[env |-> "", category |-> ""], [env |-> "prod", category |-> ""]}]
  /\ now = MAX_SNAPSHOTS
  /\ file = Missing
  /\ cycles = [c \in Cycles |-> Idle]
  /\ done = <<>>
  /\ store = [snapshots |-> <<>>]
  /\ appended = <<>>
  /\ metrics = NoMetrics
  /\ walk = NoWalk

NextImpact ==
  \/ Request(1)
  \/ \E i \in 1..Len(ENDPOINTS) : Exchange(1, i)
  \/ Respond(1)

SpecImpact == InitImpact /\ [][NextImpact]_vars

-----------------------------------------------------------------------------
(* recordSnapshot, called again and again on one history object            *)

\* the results of the k-th call: one endpoint, its status by turns and k as
\* its response time
ResultsOf(k) ==
  LET status == IF k % 3 = 1 THEN "UP" ELSE IF k % 3 = 2 THEN "DEGRADED" ELSE "DOWN"
  IN <<result(ENDPOINTS[1], status, k, NoDetails,
              IF status = "UP" THEN JsUndefined ELSE JsStr("HTTP 500"))>>

InitRing ==
  /\ ENDPOINTS = Fleet
  /\ net = [codes |-> {200}, faults |-> {}, saves |-> SaveOutcomes, queries |-> {}]
  /\ now = 0
  /\ file = Missing
  /\ cycles = [c \in Cycles |-> Idle]
  /\ done = <<>>
  /\ store = [snapshots |-> <<>>]
  /\ appended = <<>>
  /\ metrics = NoMetrics
  /\ walk = NoWalk

RecordSnapshot ==
  /\ Len(appended) < MAX_SNAPSHOTS + MaxExtra
  /\ \E step \in 0..MaxStep :
       /\ now + step <= MaxClock
       /\ now' = now + step
       /\ store' = recordSnapshot(store, ResultsOf(Len(appended) + 1), now + step)
       /\ appended' = Append(appended,
                        [t |-> now + step, ep |-> EpOf(ResultsOf(Len(appended) + 1))])
  /\ UNCHANGED <<ENDPOINTS, net, file, cycles, done, metrics, walk>>

NextRing == RecordSnapshot

SpecRing == InitRing /\ [][NextRing]_vars

-----------------------------------------------------------------------------
(* The history derivations, called on histories recordSnapshot has built   *)

\* a recorded history: row n lists the results of the n-th call as
\* <<position in the fleet, status, response time>>, recorded at time n
Results(row) ==
  [k \in 1..Len(row) |->
     result(Fleet[row[k][1]], row[k][2], row[k][3], NoDetails,
            IF row[k][2] = "UP" THEN JsUndefined ELSE JsStr("HTTP 500"))]

RECURSIVE Recorded(_, _)
Recorded(rows, n) ==
  IF n = 0 THEN [snapshots |-> <<>>]
  ELSE recordSnapshot(Recorded(rows, n - 1), Results(rows[n]), n)

\* val-1 goes UP, UP, DOWN, DOWN, UP; api-1 is first seen DOWN in the third
\* call and stays so
Flapping ==
  << <<<<1, "UP", 4>>>>, <<<<1, "UP", 5>>>>,
     <<<<1, "DOWN", 6>>, <<2, "DOWN", 2>>>>, <<<<1, "DOWN", 7>>, <<2, "DOWN", 2>>>>,
     <<<<1, "UP", 8>>, <<2, "DOWN", 2>>>> >>

\* val-1 is UP in eight calls of ten; api-1 is checked in the last three only
EightOfTen ==
  [n \in 1..10 |->
     <<<<1, IF n = 4 THEN "DEGRADED" ELSE IF n = 7 THEN "DOWN" ELSE "UP", n>>>>
     \o (IF n >= 8 THEN <<<<2, IF n = 9 THEN "UP" ELSE "DEGRADED", 3>>>> ELSE <<>>)]

\* api-1 is checked in the first and the third call, not in the second
Gaps ==
  << <<<<2, "UP", 9>>, <<1, "UP", 1>>>>, <<<<1, "DEGRADED", 0>>>>,
     <<<<1, "DEGRADED", 2>>, <<2, "DOWN", 5>>>> >>

Histories == {<<>>, Flapping, EightOfTen, Gaps}

Checked == {"", "UP", "DEGRADED", "DOWN"}

\* the results of one more call: each of the two enabled endpoints either
\* filtered out or checked with some status
Row(first, second) ==
  (IF first = "" THEN <<>> ELSE <<<<1, first, 7>>>>)
  \o (IF second = "" THEN <<>> ELSE <<<<2, second, 0>>>>)

InitMetrics ==
  /\ ENDPOINTS = Fleet
  /\ net = [codes |-> {200}, faults |-> {}, saves |-> {"written", "failed"},
            queries |-> {}]
  /\ file = Missing
  /\ cycles = [c \in Cycles |-> Idle]
  /\ done = <<>>
  /\ \E rows \in Histories :
       /\ store = Recorded(rows, Len(rows))
       /\ now = Len(rows)
  /\ appended = <<>>
  /\ metrics = NoMetrics
  /\ walk = NoWalk

\* one more recordSnapshot call on the history
OneMore ==
  /\ Len(appended) < MaxAppends
  /\ \E step \in 0..MaxStep, first \in Checked, second \in Checked :
       LET results == Results(Row(first, second)) IN
       /\ now' = now + step
       /\ store' = recordSnapshot(store, results, now + step)
       /\ appended' = Append(appended, [t |-> now + step, ep |-> EpOf(results)])
  /\ UNCHANGED <<ENDPOINTS, net, file, cycles, done, metrics, walk>>

\* getSparklines, getUptimes and getIncidents called on the history; none of
\* them assigns to it
Metrics ==
  /\ metrics.called # "held" \/ metrics.history # store
  /\ metrics' = [called |-> "held", history |-> store,
                 sparklines |-> getSparklines(store),
                 uptimes |-> getUptimes(store),
                 incidents |-> getIncidents(store)]
  /\ UNCHANGED <<ENDPOINTS, net, now, file, cycles, done, store, appended, walk>>

\* saveHistory, then loadHistory, then the three derivations on what was
\* loaded; a failed write throws before anything is loaded
Reload ==
  /\ metrics.called # "loaded" \/ metrics.history # store
  /\ \E outcome \in net.saves :
       /\ file' = saveHistory(file, store, outcome)
       /\ IF outcome = "written"
            THEN /\ store' = loadHistory(file')
                 /\ metrics' = [called |-> "loaded", history |-> store,
                                sparklines |-> getSparklines(store'),
                                uptimes |-> getUptimes(store'),
                                incidents |-> getIncidents(store')]
            ELSE UNCHANGED <<store, metrics>>
  /\ UNCHANGED <<ENDPOINTS, net, now, cycles, done, appended, walk>>

NextMetrics ==
  \/ OneMore
  \/ Metrics
  \/ Reload

SpecMetrics == InitMetrics /\ [][NextMetrics]_vars

-----------------------------------------------------------------------------
(* A history at its capacity                                                *)

\* what a call can find: both endpoints up, val-1 down, val-1 degraded with
\* api-1 filtered out
Outcomes == {Row("UP", "UP"), Row("DOWN", "UP"), Row("DEGRADED", "")}

\* two calls with any outcome and then calls that found everything up, one
\* short of the capacity
Long(a, b) ==
  [n \in 1..(MAX_SNAPSHOTS - 1) |-> IF n = 1 THEN a ELSE IF n = 2 THEN b ELSE Row("UP", "UP")]

\* the history after one recordSnapshot call per row at times 1, 2, ... while
\* it is below its capacity: every call has pushed and none has sliced
Pushed(rows) ==
  [snapshots |-> [n \in 1..Len(rows) |-> [t |-> n, ep |-> EpOf(Results(rows[n]))]]]

InitFull ==
  /\ ENDPOINTS = Fleet
  /\ net = [codes |-> {200}, faults |-> {}, saves |-> {}, queries |-> {}]
  /\ file = Missing
  /\ cycles = [c \in Cycles |-> Idle]
  /\ done = <<>>
  /\ \E a \in Outcomes, b \in Outcomes :
       /\ store = Pushed(Long(a, b))
       /\ appended = store.snapshots
       /\ now = MAX_SNAPSHOTS - 1
  /\ metrics = NoMetrics
  /\ walk = NoWalk

\* one more call: recordSnapshot, then getIncidents on the history, as the
\* handler does; appended keeps every snapshot ever pushed
Another ==
  /\ Len(appended) < MAX_SNAPSHOTS + MaxEvicted
  /\ \E row \in Outcomes :
       LET results == Results(row) IN
       /\ now' = now + 1
       /\ store' = recordSnapshot(store, results, now + 1)
       /\ appended' = Append(appended, [t |-> now + 1, ep |-> EpOf(results)])
       /\ metrics' = [called |-> "incidents", history |-> store',
                      incidents |-> getIncidents(store')]
  /\ UNCHANGED <<ENDPOINTS, net, file, cycles, done, walk>>

NextFull == Another

SpecFull == InitFull /\ [][NextFull]_vars

-----------------------------------------------------------------------------
(* The traversals, called on the graph of a registry                       *)

Traversals == {"getBlastRadius", "getImpactedServices", "buildCascadeTree"}

\* registries of two entries a and b, each declaring at most one id
Declared == {<<>>, <<"a">>, <<"b">>, <<"x">>}
Pairs ==
  {<<Node("a", da, ia), Node("b", db, <<>>)>> :
     da \in Declared, db \in Declared, ia \in {<<>>, <<"b">>, <<"x">>}}

\* d requires c requires b requires a
Chain ==
  <<Node("a", <<>>, <<>>), Node("b", <<"a">>, <<>>), Node("c", <<"b">>, <<>>),
    Node("d", <<"c">>, <<>>)>>
Ring ==
  <<Node("a", <<"c">>, <<>>), Node("b", <<"a">>, <<>>), Node("c", <<"b">>, <<>>)>>
\* d is reached from a through b and through c; c also requires b
Diamond ==
  <<Node("a", <<>>, <<"b", "c">>), Node("b", <<>>, <<"d">>),
    Node("c", <<"a", "b">>, <<>>), Node("d", <<"c">>, <<>>)>>
\* an edge repeated within a declaration and declared from both ends, an id
\* registered twice, a declared id that is in no registry entry
Repeats ==
  <<Node("a", <<>>, <<"b", "b">>), Node("b", <<"a", "a">>, <<"x">>),
    Node("a", <<"x">>, <<>>)>>
\* an excerpt of the deployed registry
Deployed ==
  <<Node("mainnet-evm-rpc", <<>>, <<"dashboard-api-prod">>),
    Node("dashboard-api-prod", <<"absinthe-api">>, <<"dashboard-prod">>),
    Node("dashboard-prod", <<"dashboard-api-prod">>, <<>>),
    Node("portal", <<"absinthe-api">>, <<>>),
    Node("absinthe-api", <<>>, <<"dashboard-api-prod", "dashboard-api-dev", "portal">>)>>

GraphRegistries == Pairs \cup {Chain, Ring, Diamond, Repeats, Deployed, Fleet}

\* an id that no registry declares
Stranger == "z"

NoCall == [fn |-> "", start |-> "", count |-> 0, impacted |-> <<>>, levels |-> <<>>]

InitGraph ==
  /\ ENDPOINTS \in GraphRegistries
  /\ net = [codes |-> {200}, faults |-> {}, saves |-> {}, queries |-> {}]
  /\ now = 0
  /\ file = Missing
  /\ cycles = [c \in Cycles |-> Idle]
  /\ done = <<>>
  /\ store = [snapshots |-> <<>>]
  /\ appended = <<>>
  /\ metrics = NoMetrics
  /\ walk = NoWalk

\* the graph is built from the registry
Graph ==
  /\ walk.pc = "idle"
  /\ walk' = [pc |-> "ready", graph |-> getDependencyGraph(ENDPOINTS), calls |-> 0,
              last |-> NoCall]
  /\ UNCHANGED <<ENDPOINTS, net, now, file, cycles, done, store, appended, metrics>>

\* a traversal is called on the graph; the result of the one before is kept
Call ==
  /\ walk.pc \in {"ready", "done"}
  /\ walk.calls < MaxCalls
  /\ \E fn \in Traversals, start \in DOMAIN walk.graph \cup {Stranger} :
       walk' = [pc |-> "run", graph |-> walk.graph, calls |-> walk.calls + 1,
                last |-> IF walk.pc = "done"
                           THEN [fn |-> walk.w.fn, start |-> walk.w.start,
                                 count |-> walk.w.count,
                                 impacted |-> walk.w.impacted,
                                 levels |-> walk.w.levels]
                           ELSE NoCall,
                w |-> Begin(fn, start)]
  /\ UNCHANGED <<ENDPOINTS, net, now, file, cycles, done, store, appended, metrics>>

\* one turn of the while loop of the traversal
Turn ==
  /\ walk.pc = "run"
  /\ Len(walk.w.queue) > 0
  /\ walk' = [walk EXCEPT !.w =
                IF walk.w.fn = "getBlastRadius" THEN getBlastRadius(walk.w, walk.graph)
                ELSE IF walk.w.fn = "getImpactedServices"
                  THEN getImpactedServices(walk.w, walk.graph)
                ELSE buildCascadeTree(walk.w, walk.graph)]
  /\ UNCHANGED <<ENDPOINTS, net, now, file, cycles, done, store, appended, metrics>>

\* the loop condition fails and the traversal returns
Finish ==
  /\ walk.pc = "run"
  /\ Len(walk.w.queue) = 0
  /\ walk' = [walk EXCEPT !.pc = "done"]
  /\ UNCHANGED <<ENDPOINTS, net, now, file, cycles, done, store, appended, metrics>>

NextGraph ==
  \/ Graph
  \/ Call
  \/ Turn
  \/ Finish

SpecGraph == InitGraph /\ [][NextGraph]_vars

\* a traversal is a synchronous loop: once called it runs its turns
SpecGraphRuns == SpecGraph /\ WF_vars(Turn) /\ WF_vars(Finish)

-----------------------------------------------------------------------------
(* What checkAll returns                                                   *)

Finished == {c \in Cycles : cycles[c].pc = "done"}
Positions(c) == 1..Len(cycles[c].endpoints)
Failed(c) == {i \in Positions(c) : cycles[c].probes[i].kind = "throw"}

\* the probe failed with one of the three connection errors
Firewalled(c, i) ==
  /\ i \in Failed(c)
  /\ cycles[c].probes[i].err.code \in {"ECONNREFUSED", "ECONNRESET", "EHOSTUNREACH"}

Statuses(c) == {cycles[c].results[i].status : i \in 1..Len(cycles[c].results)}

\* C1: whatever each probe ends in (a result, a synchronous throw, a
\* rejection) and in whatever order the probes complete, checkAll resolves
\* with one result per selected endpoint, result i carrying the id of
\* endpoint i; a failed probe's result is DOWN, or DEGRADED under the firewall
\* rule, and the results of the other probes are the ones they returned.
C1_Isolation ==
  /\ \A c \in Cycles :
       cycles[c].pc = "checking" /\ AllSettled(cycles[c]) =>
         Len(checkAll(cycles[c])) = Len(cycles[c].endpoints)
  /\ \A c \in Finished :
       /\ Len(cycles[c].results) = Len(cycles[c].endpoints)
       /\ \A i \in Positions(c) :
            /\ cycles[c].results[i].id = cycles[c].endpoints[i].id
            /\ i \in Failed(c) =>
                 cycles[c].results[i].status =
                   IF Firewalled(c, i) /\ cycles[c].endpoints[i].category = "validators"
                     THEN "DEGRADED" ELSE "DOWN"
            /\ cycles[c].probes[i].kind = "return" =>
                 cycles[c].results[i] = cycles[c].probes[i].value

\* a cycle over four endpoints has resolved: one probe threw before its first
\* request, one failed on the network, one returned UP, and the probes
\* completed in another order than the endpoints'
C1_Witness ==
  \E c \in Finished :
    /\ Len(cycles[c].results) >= 4
    /\ \E i \in Failed(c) : cycles[c].sent[i] = 0
    /\ \E i \in Failed(c) : cycles[c].sent[i] = 1
    /\ \E i \in Positions(c) : cycles[c].results[i].status = "UP"
    /\ Len(cycles[c].order) >= 2
    /\ cycles[c].order[1] > cycles[c].order[2]

C3_ErrorIffNotUp ==
  \A c \in Finished : \A i \in 1..Len(cycles[c].results) :
    LET r == cycles[c].results[i] IN
    /\ (r.error.t = "string" /\ r.error.v # "") <=> r.status # "UP"
    /\ r.error = JsNull <=> r.status = "UP"

C5_FirewallRule ==
  \A c \in Finished : \A i \in Failed(c) :
    LET r == cycles[c].results[i]
        err == cycles[c].probes[i].err
    IN IF Firewalled(c, i) /\ cycles[c].endpoints[i].category = "validators"
         THEN r.status = "DEGRADED" /\ r.error = JsStr("Unreachable (likely firewalled)")
         ELSE /\ r.status = "DOWN"
              /\ r.error = JsStr(IF err.message # "" THEN err.message ELSE ErrToString(err))

\* in one cycle a validator and an API both had their connection refused:
\* the validator is DEGRADED, the API is DOWN with the message of the error
C5_Witness ==
  \E c \in Finished : \E i, j \in Failed(c) :
    /\ Firewalled(c, i) /\ Firewalled(c, j)
    /\ cycles[c].endpoints[i].category = "validators"
    /\ cycles[c].endpoints[j].category = "apis"
    /\ cycles[c].results[i].status = "DEGRADED"
    /\ cycles[c].results[j].status = "DOWN"
    /\ cycles[c].results[j].error = JsStr("connect ECONNREFUSED")

\* C6: whatever options checkAll is called with, every endpoint it probes is
\* enabled and matches the requested category and environment.
C6_OnlyEnabled ==
  \A c \in Cycles : \A i \in Positions(c) :
    LET ep == cycles[c].endpoints[i] IN
    /\ ep.enabled
    /\ cycles[c].opts.category # "" => ep.category = cycles[c].opts.category
    /\ cycles[c].opts.environment # "" => ep.environment = cycles[c].opts.environment

-----------------------------------------------------------------------------
(* What the history store holds                                            *)

\* the last n elements of a sequence
LastN(seq, n) ==
  IF Len(seq) <= n THEN seq ELSE [i \in 1..n |-> seq[Len(seq) - n + i]]

Latest(history) == history.snapshots[Len(history.snapshots)]

Sorted(snapshots) ==
  \A i \in 1..(Len(snapshots) - 1) : snapshots[i].t <= snapshots[i + 1].t

\* cycle c completes in this step
Completes(c) == cycles[c].pc = "checking" /\ cycles'[c].pc = "done"

\* C7: after any number of recordSnapshot calls on an empty history it holds
\* at most MAX_SNAPSHOTS snapshots, and they are the last MAX_SNAPSHOTS
\* appended ones in the order they were appended.
C7_RingBuffer ==
  /\ Len(store.snapshots) <= MAX_SNAPSHOTS
  /\ store.snapshots = LastN(appended, MAX_SNAPSHOTS)

\* one snapshot more than the capacity has been appended: the history is
\* full and its earliest snapshot is the second one appended
C7_Witness ==
  /\ Len(appended) = MAX_SNAPSHOTS + 1
  /\ Len(store.snapshots) = MAX_SNAPSHOTS
  /\ store.snapshots[1] = appended[2]
  /\ appended[1] # appended[2]

C9_OneSnapshotPerCycle ==
  [][\A c \in Cycles : Completes(c) =>
       LET snap == Latest(cycles'[c].hist)
           results == cycles'[c].results
       IN /\ Len(results) = Len(cycles[c].endpoints)
          /\ \A i \in 1..Len(results) : results[i].id = cycles[c].endpoints[i].id
          /\ {snap.ep[k].id : k \in 1..Len(snap.ep)} =
               {results[i].id : i \in 1..Len(results)}
          /\ Len(snap.ep) = Len(results)
          /\ \A k \in 1..Len(snap.ep) : \E i \in 1..Len(results) :
               /\ results[i].id = snap.ep[k].id
               /\ snap.ep[k].s = StatusCode(results[i].status)
               /\ snap.ep[k].ms = results[i].responseTimeMs
          /\ done' = Append(done, c)
          /\ cycles'[c].saved =>
               loadHistory(file').snapshots =
                 LastN(Append(loadHistory(file).snapshots, snap), MAX_SNAPSHOTS)]_vars

\* two requests were in flight together, the second completed first, both
\* saves succeeded, and the file ends with the two snapshots in the order of
\* completion, each with the ids of its own cycle
C9_Witness ==
  /\ done = <<2, 1>>
  /\ cycles[1].began = 0 /\ cycles[2].began = 0
  /\ cycles[1].saved /\ cycles[2].saved
  /\ LET snapshots == loadHistory(file).snapshots
         n == Len(snapshots)
     IN /\ n >= 2
        /\ snapshots[n] = Latest(cycles[1].hist)
        /\ snapshots[n - 1] = Latest(cycles[2].hist)
        /\ Len(snapshots[n].ep) = 2
        /\ Len(snapshots[n - 1].ep) = 1

\* C10: whatever the backing file holds and however the save ends, the
\* handler answers 200 with its payload, and when the file cannot be read
\* or parsed the history it records into is the empty one.
C10_NeverFails ==
  \A c \in Finished :
    /\ cycles[c].response.status = 200
    /\ cycles[c].read \in {"missing", "unreadable", "not json"} =>
         Len(cycles[c].hist.snapshots) = 1

-----------------------------------------------------------------------------
(* What the history derivations return                                     *)

\* the entries of a snapshot for an id: one, or none when the endpoint was
\* not checked in that call
Observed(snap, id) == {snap.ep[k] : k \in {j \in 1..Len(snap.ep) : snap.ep[j].id = id}}
Ids(snap) == {snap.ep[k].id : k \in 1..Len(snap.ep)}
Held == metrics.called = "held"

Present(snapshots, id) == {i \in 1..Len(snapshots) : Observed(snapshots[i], id) # {}}
UpIn(snapshots, id) ==
  {i \in 1..Len(snapshots) : \E e \in Observed(snapshots[i], id) : e.s = 1}

\* C12: getUptimes returns, per id of the most recent snapshot, the number
\* of snapshots in which the id is present and UP over the number in which
\* it is present, times 100 and rounded to two decimals (here in hundredths
\* of a percent); DEGRADED and DOWN do not count as UP and snapshots without
\* the id are not counted; ten snapshots with eight UP give 80.00.
C12_Uptimes ==
  Held =>
    LET snapshots == metrics.history.snapshots
        n == Len(snapshots)
        ups == metrics.uptimes.value
    IN /\ metrics.uptimes.kind = "return"
       /\ n = 0 => ups = <<>>
       /\ n > 0 =>
            /\ {ups[k].id : k \in 1..Len(ups)} = Ids(snapshots[n])
            /\ \A k, l \in 1..Len(ups) : ups[k].id = ups[l].id => k = l
       /\ \A k \in 1..Len(ups) :
            LET present == Cardinality(Present(snapshots, ups[k].id))
                up == Cardinality(UpIn(snapshots, ups[k].id))
                off == 2 * (ups[k].uptime * present - 10000 * up)
            IN /\ present > 0
               /\ -present < off /\ off <= present
               /\ (present = 10 /\ up = 8) => ups[k].uptime = 8000

\* an endpoint present in ten snapshots, UP in eight, DEGRADED in one and
\* DOWN in one, next to an endpoint that is present in three snapshots only
\* and UP in one of them
C12_Witness ==
  /\ Held
  /\ metrics.uptimes.kind = "return"
  /\ Len(metrics.history.snapshots) = 10
  /\ \E k, l \in 1..Len(metrics.uptimes.value) :
       LET snapshots == metrics.history.snapshots
           a == metrics.uptimes.value[k]
           b == metrics.uptimes.value[l]
       IN /\ Cardinality(Present(snapshots, a.id)) = 10
          /\ Cardinality(UpIn(snapshots, a.id)) = 8
          /\ \E i \in 1..10 : \E e \in Observed(snapshots[i], a.id) : e.s = 2
          /\ \E i \in 1..10 : \E e \in Observed(snapshots[i], a.id) : e.s = 0
          /\ a.uptime = 8000
          /\ Cardinality(Present(snapshots, b.id)) = 3
          /\ Cardinality(UpIn(snapshots, b.id)) = 1
          /\ b.uptime = 3333

\* the observation of an id in a snapshot that holds it
Seen(snapshots, i, id) == CHOOSE e \in Observed(snapshots[i], id) : TRUE
StatusName(s) == IF s = 0 THEN "DOWN" ELSE IF s = 1 THEN "UP" ELSE "DEGRADED"

\* the pairs of consecutive observations of an id whose statuses differ, as
\* <<id, earlier snapshot, later snapshot>>
Changes(snapshots) ==
  {c \in UNION {{<<id, i, j>> : i, j \in Present(snapshots, id)} :
                  id \in UNION {Ids(snapshots[n]) : n \in 1..Len(snapshots)}} :
     /\ c[2] < c[3]
     /\ \A h \in Present(snapshots, c[1]) : ~(c[2] < h /\ h < c[3])
     /\ Seen(snapshots, c[2], c[1]).s # Seen(snapshots, c[3], c[1]).s}

IncidentOf(snapshots, c) ==
  [id |-> c[1],
   fromStatus |-> StatusName(Seen(snapshots, c[2], c[1]).s),
   toStatus |-> StatusName(Seen(snapshots, c[3], c[1]).s),
   at |-> snapshots[c[3]].t]

\* C13: getIncidents returns one incident {id, fromStatus, toStatus, at} per
\* pair of consecutive observations of an endpoint whose statuses differ,
\* with at the time of the later snapshot, and nothing else: the first
\* snapshot and the first observation of an endpoint only seed the tracked
\* status.  The incidents come in non-increasing order of at.
C13_Incidents ==
  Held =>
    LET snapshots == metrics.history.snapshots
        incidents == metrics.incidents.value
        changes == Changes(snapshots)
    IN /\ metrics.incidents.kind = "return"
       /\ Len(incidents) = Cardinality(changes)
       /\ \A c \in changes :
            Cardinality({r \in 1..Len(incidents) : incidents[r] = IncidentOf(snapshots, c)})
              = Cardinality({d \in changes :
                               IncidentOf(snapshots, d) = IncidentOf(snapshots, c)})
       /\ \A r, q \in 1..Len(incidents) : r < q => incidents[r].at >= incidents[q].at

\* the statuses UP, UP, DOWN, DOWN, UP of val-1 have given UP to DOWN at the
\* third snapshot and DOWN to UP at the fifth, the newer one first, and the
\* endpoint first seen DOWN in the third snapshot has given nothing
C13_Witness ==
  /\ Held
  /\ Len(metrics.history.snapshots) = 5
  /\ [i \in 1..5 |-> IF Observed(metrics.history.snapshots[i], "val-1") = {} THEN -1
                     ELSE Seen(metrics.history.snapshots, i, "val-1").s]
       = <<1, 1, 0, 0, 1>>
  /\ Present(metrics.history.snapshots, "api-1") = {3, 4, 5}
  /\ metrics.incidents
       = Return(<<[id |-> "val-1", fromStatus |-> "DOWN", toStatus |-> "UP",
                   at |-> metrics.history.snapshots[5].t],
                  [id |-> "val-1", fromStatus |-> "UP", toStatus |-> "DOWN",
                   at |-> metrics.history.snapshots[3].t]>>)
  /\ metrics.history.snapshots[5].t > metrics.history.snapshots[3].t

-----------------------------------------------------------------------------
(* What the dependency graph holds and what its traversals return          *)

Built == walk.pc # "idle"
Registered == {ENDPOINTS[i].id : i \in 1..Len(ENDPOINTS)}

\* a declares b in its dependsOn, in its impacts
DeclaresDependsOn(a, b) ==
  \E i \in 1..Len(ENDPOINTS) :
    /\ ENDPOINTS[i].id = a
    /\ "dependsOn" \in DOMAIN ENDPOINTS[i]
    /\ \E k \in 1..Len(ENDPOINTS[i].dependsOn) : ENDPOINTS[i].dependsOn[k] = b
DeclaresImpacts(a, b) ==
  \E i \in 1..Len(ENDPOINTS) :
    /\ ENDPOINTS[i].id = a
    /\ "impacts" \in DOMAIN ENDPOINTS[i]
    /\ \E k \in 1..Len(ENDPOINTS[i].impacts) : ENDPOINTS[i].impacts[k] = b

Elements(array) == {array[k] : k \in 1..Len(array)}
Mentioned ==
  Registered \cup UNION {Elements(DependsOn(ENDPOINTS[i])) \cup Elements(Impacts(ENDPOINTS[i])) :
                           i \in 1..Len(ENDPOINTS)}
Known == Mentioned \cup {Stranger}

Dependents(graph, id) == IF id \in DOMAIN graph THEN Elements(graph[id].requiredBy) ELSE {}

RECURSIVE Steps(_, _, _)
Steps(graph, start, k) ==
  IF k = 0 THEN {start}
  ELSE UNION {Dependents(graph, id) : id \in Steps(graph, start, k - 1)}

\* the ids at one or more requiredBy steps from start, start itself left out
Reach(graph, start) ==
  UNION {Steps(graph, start, k) : k \in 1..Cardinality(DOMAIN graph)} \ {start}

Running(fn) == IF walk.pc = "run" THEN walk.w.fn = fn ELSE FALSE
Returned(fn) == IF walk.pc = "done" THEN walk.w.fn = fn ELSE FALSE

\* what getBlastRadius returned is the number of ids in reach, and is what
\* the call before returned when that was the same call
BlastRadiusCount ==
  IF Returned("getBlastRadius")
    THEN /\ walk.w.count = Cardinality(Reach(walk.graph, walk.w.start))
         /\ (walk.last.fn = "getBlastRadius" /\ walk.last.start = walk.w.start)
              => walk.last.count = walk.w.count
    ELSE TRUE

\* C16: getBlastRadius terminates on every graph, cyclic ones included, and
\* for every start id, also one that is not in the graph; it returns the
\* number of distinct ids that can be reached from the start by one or more
\* requiredBy steps, the start not counted; a repeated call returns the same
\* count.
C16_BlastRadius ==
  /\ []BlastRadiusCount
  /\ (Running("getBlastRadius") ~> Returned("getBlastRadius"))

\* getBlastRadius has returned a second time for a start that lies on a
\* cycle of the graph, and has counted the other two ids of the cycle
C16_Witness ==
  /\ Returned("getBlastRadius")
  /\ walk.last.fn = "getBlastRadius"
  /\ walk.last.start = walk.w.start
  /\ walk.w.start \in Steps(walk.graph, walk.w.start, 3)
  /\ walk.w.count = 2

\* getBlastRadius has returned 0 for an id that is not in the graph
C16_WitnessAbsent ==
  /\ Returned("getBlastRadius")
  /\ walk.w.start \notin DOMAIN walk.graph
  /\ walk.w.count = 0

\* the least number of requiredBy steps, one or more, from start to an id in
\* reach
Distance(graph, start, id) ==
  CHOOSE k \in 1..Cardinality(DOMAIN graph) :
    /\ id \in Steps(graph, start, k)
    /\ \A j \in 1..(k - 1) : id \notin Steps(graph, start, j)

\* what buildCascadeTree returned: level k holds the ids at distance k, each
\* once, and no level is empty
CascadeLevels ==
  IF Returned("buildCascadeTree")
    THEN LET levels == walk.w.levels
             reach == Reach(walk.graph, walk.w.start)
         IN /\ \A k \in 1..Len(levels) :
                 /\ Elements(levels[k])
                      = {id \in reach : Distance(walk.graph, walk.w.start, id) = k}
                 /\ Cardinality(Elements(levels[k])) = Len(levels[k])
                 /\ Len(levels[k]) > 0
                 /\ walk.w.start \notin Elements(levels[k])
                 /\ \A j \in 1..Len(levels) :
                      j # k => Elements(levels[j]) \cap Elements(levels[k]) = {}
            /\ \A id \in reach : \E k \in 1..Len(levels) : id \in Elements(levels[k])
    ELSE TRUE

\* C17: buildCascadeTree terminates on every graph and start id; its k-th
\* level holds exactly the ids whose shortest requiredBy distance from the
\* start is k; no id is in two levels or twice in one level, the start is
\* in no level, and no level is empty.
C17_CascadeTree ==
  /\ []CascadeLevels
  /\ (Running("buildCascadeTree") ~> Returned("buildCascadeTree"))

\* buildCascadeTree has returned two levels: the first holds two ids of
\* which one requires the other, the second an id required by both
C17_Witness ==
  /\ Returned("buildCascadeTree")
  /\ Len(walk.w.levels) = 2
  /\ Len(walk.w.levels[1]) = 2
  /\ \E id \in Elements(walk.w.levels[2]) :
       \A up \in Elements(walk.w.levels[1]) : id \in Dependents(walk.graph, up)
  /\ \E up \in Elements(walk.w.levels[1]) :
       Elements(walk.w.levels[1]) \cap Dependents(walk.graph, up) # {}

-----------------------------------------------------------------------------
(* What the chain probes return                                            *)

\* the endpoints of a cycle checked with one of the given check types, those
\* outside the validators category (whose connection errors are DEGRADED)
Probed(c, checkTypes) ==
  {i \in Positions(c) : /\ cycles[c].endpoints[i].checkType \in checkTypes
                        /\ cycles[c].endpoints[i].category # "validators"}

\* how a JSON-RPC call ended: with a result, or with a JSON-RPC error, a
\* transport failure or a timeout
RpcSucceeded(ex) == ex.kind = "response" /\ ex.body.json /\ ~ex.body.hasError
RpcFailed(ex) == ex.kind # "response" \/ (ex.body.json /\ ex.body.hasError)

\* C18: for evm-rpc, a JSON-RPC error, a transport failure or a timeout of
\* any of the four calls gives DOWN; DEGRADED is returned only for a chain id
\* other than the expected one, with an error naming both ids, or for a node
\* that reports syncing; UP is returned only when all four calls succeeded.
C18_EvmRpc ==
  \A c \in Finished : \A i \in Probed(c, {"evm-rpc"}) :
    LET r == cycles[c].results[i]
        calls == cycles[c].ended[i]
        expected == cycles[c].endpoints[i].expectedChainId
    IN /\ (\E k \in 1..Len(calls) : RpcFailed(calls[k])) => r.status = "DOWN"
       /\ r.status = "DEGRADED" =>
            \/ /\ Len(calls) = 2
               /\ RpcSucceeded(calls[2])
               /\ calls[2].body.result # JsStr(expected)
               /\ Contains(r.error.v, expected)
               /\ Contains(r.error.v, calls[2].body.result.v)
            \/ /\ Len(calls) = 3
               /\ RpcSucceeded(calls[3])
               /\ calls[3].body.result # JsFalse
       /\ r.status = "UP" =>
            /\ Len(calls) = 4
            /\ \A k \in 1..4 : RpcSucceeded(calls[k])

\* the /status or latest-block request ended in HTTP 200 with a JSON body
Reachable(ex) == ex.kind = "response" /\ ex.statusCode = 200 /\ ex.body.json

\* C19: for cosmos-rpc with a reachable /status, the result is UP only when
\* the response carries sync info with a block age below the halt threshold
\* and catching_up false, and DEGRADED when the block age exceeds the
\* threshold or catching_up is true; an HTTP error or a transport failure
\* on /status gives DOWN.
C19_CosmosRpc ==
  \A c \in Finished : \A i \in Probed(c, {"cosmos-rpc"}) :
    LET r == cycles[c].results[i]
        status == cycles[c].ended[i][1]
    IN /\ (Reachable(status) /\ r.status = "UP") =>
            /\ status.body.hasInfo
            /\ status.body.ageMs < CHAIN_HALT_THRESHOLD_SECONDS * 1000
            /\ ~status.body.catchingUp
       /\ (Reachable(status) /\ status.body.hasInfo
             /\ (status.body.ageMs > CHAIN_HALT_THRESHOLD_SECONDS * 1000
                   \/ status.body.catchingUp)) => r.status = "DEGRADED"
       /\ (status.kind # "response" \/ status.statusCode # 200) => r.status = "DOWN"

\* the result reports a possible chain halt
Halted(r) == r.status = "DEGRADED" /\ Contains(r.error.v, "Possible chain halt")

\* C20: for cosmos-rpc and cosmos-rest, details.blockAgeSec is the age of
\* the latest block in milliseconds over 1000, rounded to the nearest
\* second, and the probe returns DEGRADED for a possible chain halt exactly
\* when details.blockAgeSec is greater than 60; a block 120 seconds old
\* gives DEGRADED with blockAgeSec 120.
C20_BlockAge ==
  \A c \in Finished : \A i \in Probed(c, {"cosmos-rpc", "cosmos-rest"}) :
    LET r == cycles[c].results[i]
        first == cycles[c].ended[i][1]
    IN (Reachable(first) /\ first.body.hasInfo) =>
         /\ 2 * (1000 * r.details.blockAgeSec - first.body.ageMs) <= 1000
         /\ 2 * (first.body.ageMs - 1000 * r.details.blockAgeSec) < 1000
         /\ Halted(r) <=> r.details.blockAgeSec > CHAIN_HALT_THRESHOLD_SECONDS
         /\ first.body.ageMs = 120000 => (Halted(r) /\ r.details.blockAgeSec = 120)

-----------------------------------------------------------------------------
(* What the HTTP probes return                                             *)

\* the endpoints of a cycle checked with a check type, of any category
Checking(c, checkType) ==
  {i \in Positions(c) : cycles[c].endpoints[i].checkType = checkType}

\* a request ended in a response with a 2xx or 3xx status
Accepted(ex) == ex.kind = "response" /\ ex.statusCode >= 200 /\ ex.statusCode < 400

\* a status value holds one of the tokens, whatever the case of its letters
Tokens == {"down", "unhealthy", "error", "fail"}
HasToken(str) == \E tok \in Tokens : Contains(ToLower(str), tok)

\* the sub-components of a health body whose status value holds a token
Matching(body) ==
  {k \in 1..Len(body.components) :
     body.components[k].kind # "null" /\ HasToken(body.components[k].status)}

\* C21: for deep-health with a 2xx/3xx JSON health body, the result is
\* DEGRADED exactly when the status value of some sub-component, or the
\* top-level status string, holds one of the tokens down, unhealthy, error,
\* fail in any case, and UP otherwise; when a sub-component matches, the
\* error names the key of the first matching one in key order; keys are
\* never matched.
C21_DeepHealth ==
  \A c \in Finished : \A i \in Checking(c, "deep-health") :
    LET r == cycles[c].results[i]
        first == cycles[c].ended[i][1]
    IN (Accepted(first) /\ first.body.json /\ ~first.body.isNull) =>
         LET matching == Matching(first.body) IN
         /\ r.status = "DEGRADED" <=> (matching # {} \/ HasToken(first.body.status))
         /\ r.status \in {"UP", "DEGRADED"}
         /\ matching # {} =>
              LET k == CHOOSE m \in matching : \A n \in matching : m <= n
              IN r.error = JsStr(first.body.components[k].key \o " is unhealthy")

\* C22: for deep-health, a 404 from the health URL is followed by exactly
\* one request against the base URL; a 2xx/3xx answer to it gives UP with
\* details.fallback true, and an answer outside 2xx/3xx, after the one
\* outside 2xx/3xx from the health URL, gives DOWN.
C22_Fallback ==
  \A c \in Finished : \A i \in Checking(c, "deep-health") :
    LET r == cycles[c].results[i]
        calls == cycles[c].ended[i]
    IN (calls[1].kind = "response" /\ calls[1].statusCode = 404) =>
         /\ Len(calls) = 2
         /\ Accepted(calls[2]) =>
              (r.status = "UP" /\ "fallback" \in DOMAIN r.details /\ r.details.fallback)
         /\ (calls[2].kind = "response" /\ ~Accepted(calls[2])) => r.status = "DOWN"

\* C23: for graphql, a 2xx/3xx response whose JSON body has an errors array
\* gives DEGRADED; a 2xx/3xx response with a data field, or with a body that
\* does not parse, gives UP; a response outside 2xx/3xx gives DOWN; and a
\* body that does not parse never makes the probe throw.
C23_Graphql ==
  \A c \in Finished : \A i \in Checking(c, "graphql") :
    LET r == cycles[c].results[i]
        first == cycles[c].ended[i][1]
        object == first.body.json /\ ~first.body.isNull
    IN /\ (Accepted(first) /\ object /\ first.body.hasErrors) => r.status = "DEGRADED"
       /\ (Accepted(first) /\ object /\ first.body.hasData) => r.status = "UP"
       /\ (Accepted(first) /\ ~first.body.json) =>
            (r.status = "UP" /\ cycles[c].probes[i].kind = "return")
       /\ (first.kind = "response" /\ ~Accepted(first)) => r.status = "DOWN"

\* C23, amended: for graphql, a 2xx/3xx response whose JSON body has a data
\* field gives UP, with or without an errors array; one with an errors array
\* and no data field gives DEGRADED; one with neither, or with a body that
\* does not parse, gives UP without the probe throwing; a response outside
\* 2xx/3xx gives DOWN.
C23_GraphqlDataFirst ==
  \A c \in Finished : \A i \in Checking(c, "graphql") :
    LET r == cycles[c].results[i]
        first == cycles[c].ended[i][1]
        object == first.body.json /\ ~first.body.isNull
    IN /\ (Accepted(first) /\ object /\ first.body.hasData) => r.status = "UP"
       /\ (Accepted(first) /\ object /\ ~first.body.hasData /\ first.body.hasErrors)
            => r.status = "DEGRADED"
       /\ (Accepted(first) /\ object /\ ~first.body.hasData /\ ~first.body.hasErrors)
            => r.status = "UP"
       /\ (Accepted(first) /\ ~first.body.json) =>
            (r.status = "UP" /\ cycles[c].probes[i].kind = "return")
       /\ (first.kind = "response" /\ ~Accepted(first)) => r.status = "DOWN"

\* a graphql probe got a 2xx/3xx body with both data and errors and
\* returned UP
C23_Witness ==
  \E c \in Finished : \E i \in Checking(c, "graphql") :
    /\ Accepted(cycles[c].ended[i][1])
    /\ cycles[c].ended[i][1].body.json
    /\ ~cycles[c].ended[i][1].body.isNull
    /\ cycles[c].ended[i][1].body.hasData
    /\ cycles[c].ended[i][1].body.hasErrors
    /\ cycles[c].results[i].status = "UP"

\* the reference RPC answered the net_info request with a 200
Answered(ex) == ex.kind = "response" /\ ex.statusCode = 200

\* the peers of a net_info body; none when the body holds no list
PeersOf(body) == IF body.json /\ ~body.isNull THEN body.peers ELSE <<>>

Listed(peers, peerIp) == \E k \in 1..Len(peers) : peers[k] = peerIp

\* C24: for cosmos-peer-check endpoints of every category, the result is UP
\* exactly when the configured peer IP is a remote_ip of the reference RPC's
\* peer list, DEGRADED exactly when the reference RPC answered and the IP is
\* not in the list, and DOWN whenever the reference RPC is unreachable (a
\* transport error, a timeout or a non-200 answer).
C24_CosmosPeer ==
  \A c \in Finished : \A i \in Checking(c, "cosmos-peer-check") :
    LET r == cycles[c].results[i]
        ep == cycles[c].endpoints[i]
        first == cycles[c].ended[i][1]
        listed == Answered(first) /\ Listed(PeersOf(first.body), ep.peerIp)
    IN /\ r.status = "UP" <=> listed
       /\ r.status = "DEGRADED" <=> (Answered(first) /\ ~listed)
       /\ ~Answered(first) => r.status = "DOWN"

(* Timeouts *)

\* the requests of probe i that ended in a timeout event
TimedOut(c, i) ==
  {k \in 1..Len(cycles[c].ended[i]) : cycles[c].ended[i][k].kind = "timeout"}

Checking1 == cycles[1].pc = "checking"
Done1 == cycles[1].pc = "done"

\* a probe with a timed-out request reports DOWN with error 'timeout'
TimeoutIsDown ==
  \A c \in Finished : \A i \in Positions(c) :
    TimedOut(c, i) # {} =>
      /\ cycles[c].results[i].status = "DOWN"
      /\ cycles[c].results[i].error = JsStr("timeout")

\* a probe that returned a result has that result in the batch, whatever
\* happened to the others
OwnResult ==
  \A c \in Finished : \A j \in Positions(c) :
    cycles[c].probes[j].kind = "return" => cycles[c].results[j] = cycles[c].probes[j].value

\* a step in which a request of probe i times out leaves every other probe
\* where it was
SiblingsUntouched ==
  \A i \in 1..Len(cycles[1].endpoints) :
    (/\ cycles[1].pc = "checking"
     /\ cycles'[1].pc = "checking"
     /\ Len(cycles'[1].ended[i]) = Len(cycles[1].ended[i]) + 1
     /\ cycles'[1].ended[i][Len(cycles'[1].ended[i])].kind = "timeout")
    => \A j \in 1..Len(cycles[1].endpoints) :
         j # i => /\ cycles'[1].probes[j] = cycles[1].probes[j]
                  /\ cycles'[1].ended[j] = cycles[1].ended[j]
                  /\ cycles'[1].sent[j] = cycles[1].sent[j]

Swallowed(ep, k) == ep.checkType \in {"cosmos-rpc", "cosmos-rest"} /\ k = 2

\* a timed-out request gives DOWN 'timeout' unless it was a best-effort one,
\* and then the probe returns UP
TimeoutIsDownWhenRequired ==
  \A c \in Finished : \A i \in Positions(c) : \A k \in TimedOut(c, i) :
    IF Swallowed(cycles[c].endpoints[i], k)
      THEN /\ cycles[c].probes[i].kind = "return"
           /\ cycles[c].results[i].status = "UP"
      ELSE /\ cycles[c].results[i].status = "DOWN"
           /\ cycles[c].results[i].error = JsStr("timeout")

C25_WitnessWebsocket ==
  \E c \in Finished : \E i \in Checking(c, "websocket") :
    /\ TimedOut(c, i) # {}
    /\ cycles[c].results[i].status = "DOWN"

(* Repeated edges *)

Distinct(array) ==
  \A k, l \in 1..Len(array) : array[k] = array[l] => k = l

\* C26: in the graph built from any registry, no dependsOn list and no
\* requiredBy list holds the same id twice, whether the edge was declared both
\* in one entry's dependsOn and in another's impacts or repeated within one
\* declaration list.
C26_NoRepeats ==
  Built =>
    \A a \in DOMAIN walk.graph :
      /\ Distinct(walk.graph[a].dependsOn)
      /\ Distinct(walk.graph[a].requiredBy)

(* The three traversals side by side *)

RECURSIVE Total(_)
Total(levels) == IF levels = <<>> THEN 0 ELSE Len(Head(levels)) + Total(Tail(levels))

\* how many ids a returned call reports, and which (getBlastRadius reports
\* a number only)
Reported(call) ==
  IF call.fn = "getBlastRadius" THEN call.count
  ELSE IF call.fn = "getImpactedServices" THEN Len(call.impacted)
  ELSE Total(call.levels)
IdsOf(call) ==
  IF call.fn = "getImpactedServices" THEN Elements(call.impacted)
  ELSE UNION {Elements(call.levels[k]) : k \in 1..Len(call.levels)}

\* two calls in a row have returned for the same start id
Twice == walk.pc = "done" /\ walk.last.fn # "" /\ walk.last.start = walk.w.start

\* C27: on every graph and for every start id, the number getBlastRadius
\* returns, the length of what getImpactedServices returns and the total
\* number of ids over the levels of buildCascadeTree are equal, and the ids
\* in the cascade levels are the ids getImpactedServices returns.  Stated
\* for every two calls made in a row on one graph with one start id, in
\* either order.
C27_Agree ==
  Twice =>
    /\ Reported(walk.last) = Reported(walk.w)
    /\ ({walk.last.fn, walk.w.fn} \subseteq {"getImpactedServices", "buildCascadeTree"}
          => IdsOf(walk.last) = IdsOf(walk.w))

\* getImpactedServices and then buildCascadeTree have returned for a start
\* on a graph where three ids on two levels or more are impacted
C27_Witness ==
  /\ Twice
  /\ walk.last.fn = "getImpactedServices"
  /\ walk.w.fn = "buildCascadeTree"
  /\ Len(walk.w.levels) >= 2
  /\ Len(walk.last.impacted) >= 3

\* getBlastRadius and then getImpactedServices have returned for a start
\* that lies on a cycle of the graph
C27_WitnessCycle ==
  /\ Twice
  /\ walk.last.fn = "getBlastRadius"
  /\ walk.w.fn = "getImpactedServices"
  /\ walk.last.count >= 2
  /\ \E b \in Reach(walk.graph, walk.w.start) :
       walk.w.start \in Elements(RequiredBy(walk.graph, b))

\* buildCascadeTree and then getBlastRadius have returned for a start id
\* that is not in the graph
C27_WitnessAbsent ==
  /\ Twice
  /\ walk.last.fn = "buildCascadeTree"
  /\ walk.w.fn = "getBlastRadius"
  /\ walk.w.start \notin DOMAIN walk.graph

(* Incidents of a history that has evicted snapshots *)

Looked == metrics.called = "incidents"

\* how many snapshots have been pushed out, and the snapshots whose
\* transitions went with them: the evicted ones and the oldest retained
Evicted == IF Len(appended) > MAX_SNAPSHOTS THEN Len(appended) - MAX_SNAPSHOTS ELSE 0
Gone == SubSeq(appended, 1, Evicted + 1)

\* C28: after any sequence of appends and evictions, every incident
\* getIncidents returns has fromStatus and toStatus among UP, DEGRADED and
\* DOWN and different from each other, and its at is the t of a retained
\* snapshot other than the oldest retained; a transition whose later
\* snapshot was evicted or has become the oldest retained one is not
\* reported.
C28_Evicted ==
  Looked =>
    LET incidents == metrics.incidents.value
        retained == store.snapshots
    IN /\ metrics.incidents.kind = "return"
       /\ \A r \in 1..Len(incidents) :
            /\ incidents[r].fromStatus \in {"UP", "DEGRADED", "DOWN"}
            /\ incidents[r].toStatus \in {"UP", "DEGRADED", "DOWN"}
            /\ incidents[r].fromStatus # incidents[r].toStatus
            /\ \E j \in 2..Len(retained) : retained[j].t = incidents[r].at
       /\ \A c \in Changes(Gone) :
            \A r \in 1..Len(incidents) : incidents[r] # IncidentOf(Gone, c)

\* two snapshots have been evicted; val-1 had changed status in the second
\* snapshot pushed and again in the third, which is now the oldest retained;
\* neither change is reported, and a change in a newer snapshot is
C28_Witness ==
  /\ Looked
  /\ Evicted = 2
  /\ \E c \in Changes(Gone) : c[1] = "val-1" /\ c[3] = 2
  /\ \E c \in Changes(Gone) : c[1] = "val-1" /\ c[3] = 3
  /\ metrics.incidents.kind = "return"
  /\ Len(metrics.incidents.value) >= 1
  /\ \E r \in 1..Len(metrics.incidents.value) :
       metrics.incidents.value[r].at = store.snapshots[Len(store.snapshots)].t

(* What the handler answers *)

Answered200 == {c \in Finished : cycles[c].response.status = 200}
KeysOf(entries) == {entries[k].id : k \in 1..Len(entries)}
ResultIds(c) == {cycles[c].results[i].id : i \in 1..Len(cycles[c].results)}

\* the ids some snapshot of the cycle's history holds
EverChecked(c) ==
  UNION {{cycles[c].hist.snapshots[n].ep[k].id : k \in 1..Len(cycles[c].hist.snapshots[n].ep)} :
           n \in 1..Len(cycles[c].hist.snapshots)}

\* C29: in every response of the handler, history.sparklines and
\* history.uptimes have one key per result id of the cycle and no other,
\* whatever endpoints earlier cycles checked: an id that only earlier cycles
\* checked has no entry.
C29_Keys ==
  \A c \in Answered200 :
    /\ KeysOf(cycles[c].response.sparklines) = ResultIds(c)
    /\ KeysOf(cycles[c].response.uptimes) = ResultIds(c)
    /\ Len(cycles[c].response.sparklines) = Cardinality(ResultIds(c))
    /\ Len(cycles[c].response.uptimes) = Cardinality(ResultIds(c))
    /\ \A id \in EverChecked(c) \ ResultIds(c) :
         /\ id \notin KeysOf(cycles[c].response.sparklines)
         /\ id \notin KeysOf(cycles[c].response.uptimes)

\* a request with ?env=prod was answered after a request without filter had
\* recorded api-1: the history holds api-1, the response has val-1 only
C29_Witness ==
  \E c \in Answered200 :
    /\ ResultIds(c) = {"val-1"}
    /\ "api-1" \in EverChecked(c)
    /\ KeysOf(cycles[c].response.sparklines) = {"val-1"}
    /\ KeysOf(cycles[c].response.uptimes) = {"val-1"}

\* a request whose filter selects no endpoint was answered with no keys
\* from a history that holds val-1
C29_WitnessNone ==
  \E c \in Answered200 :
    /\ ResultIds(c) = {}
    /\ "val-1" \in EverChecked(c)
    /\ cycles[c].response.sparklines = <<>>

\* C30: in every successful response, total is the number of results and
\* the sum of up, degraded and down; every key of impactMap is the id of a
\* result that is DOWN or DEGRADED, its list is not empty and does not hold
\* the key itself, also when the graph has a cycle through that id.
C30_Summary ==
  \A c \in Answered200 :
    LET response == cycles[c].response
        results == cycles[c].results
    IN /\ response.results = results
       /\ response.total = Len(results)
       /\ response.total = response.up + response.degraded + response.down
       /\ \A k \in 1..Len(response.impactMap) :
            LET entry == response.impactMap[k] IN
            /\ \E i \in 1..Len(results) :
                 results[i].id = entry.id /\ results[i].status \in {"DOWN", "DEGRADED"}
            /\ Len(entry.impacted) > 0
            /\ entry.id \notin KeysOf(entry.impacted)
            /\ \A l \in 1..Len(response.impactMap) : response.impactMap[l].id = entry.id => l = k

\* the validator is DEGRADED, the API is DOWN, the web app is UP and the
\* dashboard is DOWN: the validator maps to the dashboard, the API and the web
\* app, the API, which is on a cycle with the web app, maps to the web app
\* only, and the dashboard, on which nothing depends, has no key
C30_Witness ==
  \E c \in Answered200 :
    LET response == cycles[c].response IN
    /\ response.total = 4
    /\ response.up = 1
    /\ response.degraded = 1
    /\ response.down = 2
    /\ response.impactMap =
         <<[id |-> "val-1", impacted |-> <<[id |-> "dash-1", name |-> "Dashboard"],
                                           [id |-> "api-1", name |-> "API"],
                                           [id |-> "web-1", name |-> "Web"]>>],
           [id |-> "api-1", impacted |-> <<[id |-> "web-1", name |-> "Web"]>>]>>
    /\ \E i \in 1..4 : cycles[c].results[i].id = "dash-1" /\ cycles[c].results[i].status = "DOWN"

====
